---------------------------- MODULE Spec2Model ----------------------------
(***************************************************************************)
(* Model of the sentiment-to-action decision engines of the repository:    *)
(* the normalizer and the threshold selectors (Task2/app.js, Task3/app.js, *)
(* unnamed/part_000), the rule interpreter parseRules / executeRules       *)
(* (Task3/app.js) and the analyzeRandomReview flows around them.           *)
(*                                                                         *)
(* Numbers: every real the code handles (confidence, score, thresholds)    *)
(* is an integer count of hundredths, so 0.4 is 40, 0.7 is 70 and the      *)
(* literal 1 of "1 - score" is 100.                                        *)
(***************************************************************************)
EXTENDS Integers, Sequences, FiniteSets, TLC

VARIABLES
    \* ---- a call of one of the pure selector functions
    label,          \* the label argument
    score,          \* the confidence / score argument
    applied,        \* which function was called last ("none" before any call)
    decision        \* what that call returned

selVars == <<label, score, applied, decision>>

VARIABLES
    \* ---- the rule interpreter (Task3/app.js)
    instruction,    \* the text of the instruction field, a sequence of lines
    businessRules,  \* let businessRules: the installed rule list
    parsed,         \* whether businessRules was parsed from instruction
    data,           \* the record given to the last executeRules call
    ruleResult      \* how that call ended ("none" before any call)

ruleVars == <<instruction, businessRules, parsed, data, ruleResult>>

VARIABLES
    \* ---- one page session of an application variant
    variant,            \* which analyzeRandomReview the page runs
    reviews,            \* let reviews: the loaded reviews
    loadPending,        \* the fetch of loadReviews at start-up is in flight
    sentimentPipeline,  \* let sentimentPipeline: "null", "loading", "ready"
    apiToken,           \* let apiToken: "" or a token
    USE_MOCK_API,       \* const USE_MOCK_API of the page session
    btnDisabled,        \* analyze-btn.disabled
    loadingShown,       \* the loading indicator is displayed
    errorShown,         \* the error message is displayed
    sentimentShown,     \* what sentiment-result displays
    actionShown,        \* the action code the page displays ("" for none)
    log,                \* the payloads POSTed to the logging endpoint
    pendingPosts,       \* log POSTs in flight that no event waits for
    ev,                 \* the analyzeRandomReview invocations of the session
    started,            \* how many of them have begun
    reviewShown,        \* the review that review-text displays (0 for none)
    startTime           \* let startTime: the invocation that set it last

appVars == <<variant, reviews, loadPending, sentimentPipeline, apiToken,
             USE_MOCK_API, btnDisabled, loadingShown, errorShown,
             sentimentShown, actionShown, log, pendingPosts, ev, started,
             reviewShown, startTime>>

VARIABLES
    \* ---- the batch simulation of Task3/app.js and the user's edits
    mockData,           \* const mockData of the last runSimulation
    outTable,           \* const enriched of that run, the rows of outTable
    kpi,                \* what that run wrote to the KPI elements
    simStatus,          \* el("status") as runSimulation leaves it
    pendingRenders,     \* runSimulation calls that wait for renderMermaid
    acts,               \* runSimulation clicks and text edits so far
    scoreCall           \* a call of the policy score arithmetic

simVars == <<mockData, outTable, kpi, simStatus, pendingRenders, acts,
             scoreCall>>

vars == <<selVars, ruleVars, appVars, simVars>>

-----------------------------------------------------------------------------
(* Bounds of the model *)

\* the largest confidence fed to the selectors, in hundredths (1.00)
MaxConfidence == 100

-----------------------------------------------------------------------------
(* Input domains *)

\* labels a classifier result can carry once upper-cased, one unrecognized
\* label and the empty label
Labels == {"POSITIVE", "NEGATIVE", "NEUTRAL", "MIXED", ""}

Scores == 0..MaxConfidence

\* no selector call under way
SelIdle ==
    /\ label = "NEUTRAL"
    /\ score = 50
    /\ applied = "none"
    /\ decision = "none"

-----------------------------------------------------------------------------
(* Task2/app.js: getNormalizedScore *)

getNormalizedScore_swapped(confidence, lbl) ==
    IF lbl = "POSITIVE" THEN 100 - confidence
    ELSE IF lbl = "NEGATIVE" THEN confidence
    ELSE 50

getNormalizedScore(confidence, lbl) ==
    IF lbl = "POSITIVE" THEN confidence
    ELSE IF lbl = "NEGATIVE" THEN 100 - confidence
    ELSE 50

(* Task2/app.js:495 determineBusinessAction (remote-API variant) *)

normalizedScore_Task2_495(confidence, lbl) ==
    IF lbl = "POSITIVE" THEN confidence
    ELSE IF lbl = "NEGATIVE" THEN 100 - confidence
    ELSE 50

determineBusinessAction_Task2_495(confidence, lbl) ==
    LET normalizedScore == normalizedScore_Task2_495(confidence, lbl) IN
    IF normalizedScore <= 40 THEN
        [actionCode |-> "OFFER_COUPON", uiColor |-> "#ef4444",
         uiIcon |-> "fa-gift"]
    ELSE IF normalizedScore < 70 THEN
        [actionCode |-> "REQUEST_FEEDBACK", uiColor |-> "#6b7280",
         uiIcon |-> "fa-comment-dots"]
    ELSE
        [actionCode |-> "ASK_REFERRAL", uiColor |-> "#3b82f6",
         uiIcon |-> "fa-user-friends"]

(* Task2/app.js:1008 determineBusinessAction (remote-API variant with
   logging) *)

normalizedScore_Task2_1008(confidence, lbl) ==
    IF lbl = "POSITIVE" THEN confidence
    ELSE IF lbl = "NEGATIVE" THEN 100 - confidence
    ELSE 50

determineBusinessAction_Task2_1008_strict(confidence, lbl) ==
    LET normalizedScore == normalizedScore_Task2_1008(confidence, lbl) IN
    IF normalizedScore < 40 THEN
        [actionCode |-> "OFFER_COUPON", uiColor |-> "#ef4444",
         buttonLink |-> "#coupon"]
    ELSE IF normalizedScore < 70 THEN
        [actionCode |-> "REQUEST_FEEDBACK", uiColor |-> "#6b7280",
         buttonLink |-> "#feedback"]
    ELSE
        [actionCode |-> "ASK_REFERRAL", uiColor |-> "#3b82f6",
         buttonLink |-> "#referral"]

determineBusinessAction_Task2_1008(confidence, lbl) ==
    LET normalizedScore == normalizedScore_Task2_1008(confidence, lbl) IN
    IF normalizedScore <= 40 THEN
        [actionCode |-> "OFFER_COUPON", uiColor |-> "#ef4444",
         buttonLink |-> "#coupon"]
    ELSE IF normalizedScore < 70 THEN
        [actionCode |-> "REQUEST_FEEDBACK", uiColor |-> "#6b7280",
         buttonLink |-> "#feedback"]
    ELSE
        [actionCode |-> "ASK_REFERRAL", uiColor |-> "#3b82f6",
         buttonLink |-> "#referral"]

(* Task2/app.js:913 getActionCode (local-model variant with logging): a
   label that is not NEGATIVE is normalized to the confidence itself *)

getActionCode_noFlip(confidence, lbl) ==
    LET normalized == confidence IN
    IF normalized <= 40 THEN "OFFER_COUPON"
    ELSE IF normalized < 70 THEN "REQUEST_FEEDBACK"
    ELSE "ASK_REFERRAL"

getActionCode(confidence, lbl) ==
    LET normalized == IF lbl = "NEGATIVE" THEN 100 - confidence
                      ELSE confidence IN
    IF normalized <= 40 THEN "OFFER_COUPON"
    ELSE IF normalized < 70 THEN "REQUEST_FEEDBACK"
    ELSE "ASK_REFERRAL"

(* Task3/app.js:802 determineBusinessAction (local-model variant with
   business action) *)

normalizedScore_Task3_802_raw(s, lbl) ==
    IF lbl = "NEGATIVE" THEN 100 - s
    ELSE s

normalizedScore_Task3_802(s, lbl) ==
    IF lbl = "NEGATIVE" THEN 100 - s
    ELSE IF lbl = "POSITIVE" THEN s
    ELSE 50

determineBusinessAction_Task3_802(s, lbl) ==
    LET normalizedScore == normalizedScore_Task3_802(s, lbl) IN
    IF normalizedScore <= 40 THEN
        [actionCode |-> "OFFER_COUPON", color |-> "#FF4444",
         buttonLink |-> "#coupon-modal", normalizedScore |-> normalizedScore]
    ELSE IF normalizedScore < 70 THEN
        [actionCode |-> "REQUEST_FEEDBACK", color |-> "#FFA500",
         buttonLink |-> "https://forms.gle/your-survey-link",
         normalizedScore |-> normalizedScore]
    ELSE
        [actionCode |-> "ASK_REFERRAL", color |-> "#4CAF50",
         buttonLink |-> "#referral-program",
         normalizedScore |-> normalizedScore]

(* unnamed/part_000:231 determineBusinessAction (5-bucket, label-aware) *)

determineBusinessAction_part000_ge(sentiment) ==
    LET lbl == sentiment.label
        s   == sentiment.score IN
    IF lbl = "NEGATIVE" /\ s >= 70 THEN
        [action |-> "OFFER_COUPON", icon |-> "fa-gift", tone |-> "negative",
         trigger |-> "High-confidence negative review", score |-> s]
    ELSE IF lbl = "NEGATIVE" /\ s < 70 THEN
        [action |-> "FLAG_FOR_REVIEW", icon |-> "fa-flag",
         tone |-> "negative",
         trigger |-> "Low-confidence negative review", score |-> s]
    ELSE IF lbl = "POSITIVE" /\ s >= 70 THEN
        [action |-> "THANK_CUSTOMER", icon |-> "fa-star",
         tone |-> "positive",
         trigger |-> "High-confidence positive review", score |-> s]
    ELSE IF lbl = "POSITIVE" /\ s < 70 THEN
        [action |-> "NO_ACTION", icon |-> "fa-check-circle",
         tone |-> "positive",
         trigger |-> "Low-confidence positive review", score |-> s]
    ELSE IF lbl = "NEUTRAL" THEN
        [action |-> "NO_ACTION", icon |-> "fa-info-circle",
         tone |-> "neutral", trigger |-> "Neutral sentiment", score |-> s]
    ELSE
        [action |-> "NO_ACTION", icon |-> "fa-comment", tone |-> "info",
         trigger |-> "Unknown sentiment", score |-> s]

determineBusinessAction_part000(sentiment) ==
    LET lbl == sentiment.label
        s   == sentiment.score IN
    IF lbl = "NEGATIVE" /\ s > 70 THEN
        [action |-> "OFFER_COUPON", icon |-> "fa-gift", tone |-> "negative",
         trigger |-> "High-confidence negative review", score |-> s]
    ELSE IF lbl = "NEGATIVE" /\ s <= 70 THEN
        [action |-> "FLAG_FOR_REVIEW", icon |-> "fa-flag",
         tone |-> "negative",
         trigger |-> "Low-confidence negative review", score |-> s]
    ELSE IF lbl = "POSITIVE" /\ s > 70 THEN
        [action |-> "THANK_CUSTOMER", icon |-> "fa-star",
         tone |-> "positive",
         trigger |-> "High-confidence positive review", score |-> s]
    ELSE IF lbl = "POSITIVE" /\ s <= 70 THEN
        [action |-> "NO_ACTION", icon |-> "fa-check-circle",
         tone |-> "positive",
         trigger |-> "Low-confidence positive review", score |-> s]
    ELSE IF lbl = "NEUTRAL" THEN
        [action |-> "NO_ACTION", icon |-> "fa-info-circle",
         tone |-> "neutral", trigger |-> "Neutral sentiment", score |-> s]
    ELSE
        [action |-> "NO_ACTION", icon |-> "fa-comment", tone |-> "info",
         trigger |-> "Unknown sentiment", score |-> s]

-----------------------------------------------------------------------------
(* Text of the rule language.

   A line of text is the sequence of its words: what line.trim() leaves,
   split at white space.  A word is a token [k, s, n]: a double-quoted
   string literal (k = "str", s its content), a numeric literal (k = "num",
   n its value in hundredths) or any other run of characters (k = "word",
   s its text).  TLC cannot look into a string, so what the code asks of a
   word's characters (startsWith, a regular expression class, toUpperCase)
   is a table over the words the model uses. *)

W(s) == [k |-> "word", s |-> s, n |-> 0]
S(s) == [k |-> "str", s |-> s, n |-> 0]
N(n) == [k |-> "num", s |-> "", n |-> n]

\* String.prototype.toUpperCase on the texts of the model
toUpperCase(s) ==
    CASE s = "if" -> "IF"
      [] s = "then" -> "THEN"
      [] s = "return" -> "RETURN"
      [] s = "human_review" -> "HUMAN_REVIEW"
      [] s = "sentiment" -> "SENTIMENT"
      [] s = "confidence" -> "CONFIDENCE"
      [] s = "churn_score" -> "CHURN_SCORE"
      [] s = "monthly_charges" -> "MONTHLY_CHARGES"
      [] s = "segment" -> "SEGMENT"
      [] s = "tenure" -> "TENURE"
      [] s = "[rules]" -> "[RULES]"
      [] s = "negative" -> "NEGATIVE"
      [] s = "positive" -> "POSITIVE"
      [] OTHER -> s

\* the texts made of the letters A-Z, a-z and "_" only, which [A-Z_]+ matches
\* under the i flag, among the words a line of the model carries after IF or
\* RETURN ("PLAN_2", with its digit, is not one)
LetterTexts ==
    {"IF", "if", "THEN", "then", "RETURN", "return", "AND",
     "sentiment", "confidence", "churn_score", "monthly_charges", "segment",
     "tenure",
     "EMERGENCY_CALL", "OFFER_COUPON", "SUGGEST_UPGRADE",
     "THANK_AND_CROSSSELL", "HUMAN_REVIEW", "human_review", "THANK_ONLY",
     "NO_ACTION", "NEGATIVE", "NEUTRAL", "POSITIVE", "VIP", "STANDARD",
     "OTHER", "MIXED"}

\* line.startsWith("//")
startsWithSlashes(line) ==
    line # <<>> /\ line[1].k = "word" /\ line[1].s \in {"//"}

\* line.startsWith("[")
startsWithBracket(line) ==
    line # <<>> /\ line[1].k = "word"
               /\ line[1].s \in {"[RULES]", "[MERMAID]", "[rules]"}

\* a word against /"?([A-Z_]+)"?$/i at the end of a line
matchesCode(tok) == tok.k \in {"word", "str"} /\ tok.s \in LetterTexts

\* a word against a keyword of the two regular expressions, under the i flag
isKeyword(tok, kw) == tok.k = "word" /\ toUpperCase(tok.s) = kw

-----------------------------------------------------------------------------
(* Task3/app.js:14 DEFAULT_INSTRUCTION, line by line *)

DEFAULT_INSTRUCTION ==
    << <<W("ROLE:")>>,
       <<W("Sentiment-Based"), W("Decision"), W("Maker")>>,
       <<W("CONTEXT:")>>,
       <<W("Customer"), W("Data:"), W("sentiment,"), W("confidence,"),
         W("segment,"), W("churn_score,"), W("monthly_charges")>>,
       <<W("INSTRUCTION:")>>,
       <<W("Define"), W("your"), W("logic"), W("using"), W("IF/ELSE"),
         W("rules."), W("The"), W("system"), W("executes"), W("them"),
         W("in"), W("order.")>>,
       <<W("[RULES]")>>,
       <<W("//"), W("1."), W("Critical"), W("Negative"), W("Sentiment"),
         W("(Emergency"), W("Response)")>>,
       <<W("IF"), W("sentiment"), W("=="), S("NEGATIVE"), W("AND"),
         W("confidence"), W(">="), N(80), W("THEN"), W("RETURN"),
         S("EMERGENCY_CALL")>>,
       <<>>,
       <<W("//"), W("2."), W("Negative"), W("Sentiment"), W("(Offer"),
         W("Compensation)")>>,
       <<W("IF"), W("sentiment"), W("=="), S("NEGATIVE"), W("AND"),
         W("confidence"), W(">="), N(60), W("THEN"), W("RETURN"),
         S("OFFER_COUPON")>>,
       <<>>,
       <<W("//"), W("3."), W("Neutral"), W("Sentiment"), W("(Upsell"),
         W("Opportunity)")>>,
       <<W("IF"), W("sentiment"), W("=="), S("NEUTRAL"), W("AND"),
         W("confidence"), W(">="), N(70), W("THEN"), W("RETURN"),
         S("SUGGEST_UPGRADE")>>,
       <<>>,
       <<W("//"), W("4."), W("Positive"), W("Sentiment"),
         W("(Cross-sell)")>>,
       <<W("IF"), W("sentiment"), W("=="), S("POSITIVE"), W("AND"),
         W("confidence"), W(">="), N(80), W("THEN"), W("RETURN"),
         S("THANK_AND_CROSSSELL")>>,
       <<>>,
       <<W("//"), W("5."), W("Low"), W("Confidence"), W("(Human"),
         W("Review)")>>,
       <<W("IF"), W("confidence"), W("<"), N(60), W("THEN"), W("RETURN"),
         S("HUMAN_REVIEW")>>,
       <<>>,
       <<W("//"), W("Default:"), W("Thank"), W("customer")>>,
       <<W("RETURN"), S("THANK_ONLY")>>,
       <<>>,
       <<W("[MERMAID]")>>,
       <<W("flowchart"), W("TD")>>,
       <<W("Start[Review"), W("Analyzed]"), W("-->"),
         W("Sentiment{Sentiment?}")>>,
       <<>>,
       <<W("Sentiment"), W("--"), W("NEGATIVE"), W("-->"),
         W("Conf1{Confidence"), W(">="), W("0.8?}")>>,
       <<W("Conf1"), W("--"), W("Yes"), W("-->"),
         W("Emergency[EMERGENCY_CALL]")>>,
       <<W("Conf1"), W("--"), W("No"), W("-->"), W("Conf2{Confidence"),
         W(">="), W("0.6?}")>>,
       <<W("Conf2"), W("--"), W("Yes"), W("-->"), W("Coupon[OFFER_COUPON]")>>,
       <<W("Conf2"), W("--"), W("No"), W("-->"), W("Review[HUMAN_REVIEW]")>>,
       <<>>,
       <<W("Sentiment"), W("--"), W("NEUTRAL"), W("-->"),
         W("Conf3{Confidence"), W(">="), W("0.7?}")>>,
       <<W("Conf3"), W("--"), W("Yes"), W("-->"),
         W("Upgrade[SUGGEST_UPGRADE]")>>,
       <<W("Conf3"), W("--"), W("No"), W("-->"), W("Review")>>,
       <<>>,
       <<W("Sentiment"), W("--"), W("POSITIVE"), W("-->"),
         W("Conf4{Confidence"), W(">="), W("0.8?}")>>,
       <<W("Conf4"), W("--"), W("Yes"), W("-->"),
         W("CrossSell[THANK_AND_CROSSSELL]")>>,
       <<W("Conf4"), W("--"), W("No"), W("-->"), W("Thank[THANK_ONLY]")>>,
       <<>>,
       <<W("Emergency"), W("-->"), W("End[Action"), W("Taken]")>>,
       <<W("Coupon"), W("-->"), W("End")>>,
       <<W("Upgrade"), W("-->"), W("End")>>,
       <<W("CrossSell"), W("-->"), W("End")>>,
       <<W("Thank"), W("-->"), W("End")>>,
       <<W("Review"), W("-->"), W("End")>>,
       <<>> >>

-----------------------------------------------------------------------------
(* Task3/app.js:173 parseRules *)

\* lines.findIndex(x => x.trim() === "[RULES]"), 0 standing for -1
RECURSIVE findRulesHeader(_, _)
findRulesHeader(lines, i) ==
    IF i > Len(lines) THEN 0
    ELSE IF lines[i] = <<W("[RULES]")>> THEN i
    ELSE findRulesHeader(lines, i + 1)

\* line.match(/^IF\s+(.+?)\s+THEN\s+RETURN\s+"?([A-Z_]+)"?$/i): the last
\* three words are THEN, RETURN and the code, whatever the lazy group takes
ifMatch(line) ==
    /\ Len(line) >= 5
    /\ isKeyword(line[1], "IF")
    /\ isKeyword(line[Len(line) - 2], "THEN")
    /\ isKeyword(line[Len(line) - 1], "RETURN")
    /\ matchesCode(line[Len(line)])

\* line.match(/^RETURN\s+"?([A-Z_]+)"?$/i)
returnMatch(line) ==
    /\ Len(line) = 2
    /\ isKeyword(line[1], "RETURN")
    /\ matchesCode(line[2])

\* the rule a matching line pushes
conditionalRule(line) ==
    [type |-> "conditional",
     condition |-> SubSeq(line, 2, Len(line) - 3),
     result |-> toUpperCase(line[Len(line)].s)]

fallbackRule(line) ==
    [type |-> "fallback", result |-> toUpperCase(line[2].s)]

\* the for loop of parseRules from line i on
RECURSIVE parseLines(_, _)
parseLines(lines, i) ==
    IF i > Len(lines) THEN <<>>
    ELSE LET line == lines[i] IN
         IF line = <<>> \/ startsWithSlashes(line)
            THEN parseLines(lines, i + 1)
         ELSE IF startsWithBracket(line) THEN <<>>
         ELSE IF ifMatch(line)
            THEN <<conditionalRule(line)>> \o parseLines(lines, i + 1)
         ELSE IF returnMatch(line)
            THEN <<fallbackRule(line)>> \o parseLines(lines, i + 1)
         ELSE parseLines(lines, i + 1)

parseRules_firstOnly(instructionText) ==
    LET start == findRulesHeader(instructionText, 1) IN
    IF start = 0 THEN <<>>
    ELSE LET all == parseLines(instructionText, start + 1) IN
         IF all = <<>> THEN <<>> ELSE <<all[1]>>

parseRules(instructionText) ==
    LET start == findRulesHeader(instructionText, 1) IN
    IF start = 0 THEN <<>>
    ELSE parseLines(instructionText, start + 1)

-----------------------------------------------------------------------------
(* Task3/app.js:213-221: the substitution of the record's fields into a
   condition and eval(cond).

   eval is modelled on the JavaScript expressions the rule language is made
   of: operands (string literal, numeric literal, identifier) compared by
   == != < <= > >= and joined by && and ||.  Any other sequence of words is a
   SyntaxError; an identifier that is still there when it is evaluated is a
   ReferenceError.  Both are exceptions of eval. *)

RelOps == {"==", "!=", "<", "<=", ">", ">="}
LogOps == {"&&", "||"}

\* data.churn_score || 0 and data.monthly_charges || 0: an absent numeric
\* field is held as 0, which || treats as it treats undefined
orZero(x) == IF x = 0 THEN 0 ELSE x

\* data.segment || "OTHER": an absent segment is held as ""
orOther(s) == IF s = "" THEN "OTHER" ELSE s

\* the five .replace calls, word by word, in the order of the code; a
\* replaced word is a literal and holds no later field name
substituteWord(t, d) ==
    IF t.k # "word" THEN t
    ELSE IF t.s = "sentiment" THEN S(d.sentiment)
    ELSE IF t.s = "confidence" THEN N(d.confidence)
    ELSE IF t.s = "churn_score" THEN N(orZero(d.churn_score))
    ELSE IF t.s = "monthly_charges" THEN N(orZero(d.monthly_charges))
    ELSE IF t.s = "segment" THEN S(orOther(d.segment))
    ELSE t

substitute(condition, d) ==
    [i \in 1..Len(condition) |-> substituteWord(condition[i], d)]

isOperand(t) ==
    \/ t.k \in {"str", "num"}
    \/ t.k = "word" /\ t.s \in LetterTexts \ {"if", "return"}

isIdentifier(t) == t.k = "word"

\* whether the words from i on are an expression of the grammar; expect is
\* what may come next: an operand that starts a comparison ("left"), what
\* follows it ("afterLeft"), the operand after a comparison operator
\* ("right"), what follows that ("afterRight")
RECURSIVE parses(_, _, _)
parses(toks, i, expect) ==
    IF i > Len(toks) THEN expect \in {"afterLeft", "afterRight"}
    ELSE LET t == toks[i] IN
         CASE expect = "left" ->
                 isOperand(t) /\ parses(toks, i + 1, "afterLeft")
           [] expect = "afterLeft" ->
                 /\ t.k = "word"
                 /\ \/ t.s \in RelOps /\ parses(toks, i + 1, "right")
                    \/ t.s \in LogOps /\ parses(toks, i + 1, "left")
           [] expect = "right" ->
                 isOperand(t) /\ parses(toks, i + 1, "afterRight")
           [] expect = "afterRight" ->
                 /\ t.k = "word"
                 /\ t.s \in LogOps
                 /\ parses(toks, i + 1, "left")

\* the order of the strings of the model by UTF-16 code units
strRank(s) ==
    CASE s = "" -> 0
      [] s = "MIXED" -> 1
      [] s = "NEGATIVE" -> 2
      [] s = "NEUTRAL" -> 3
      [] s = "OTHER" -> 4
      [] s = "POSITIVE" -> 5
      [] s = "STANDARD" -> 6
      [] s = "VIP" -> 7

compareInts(a, op, b) ==
    CASE op = "==" -> a = b
      [] op = "!=" -> a # b
      [] op = "<" -> a < b
      [] op = "<=" -> a <= b
      [] op = ">" -> a > b
      [] op = ">=" -> a >= b

\* a comparison of two literals: number with number, string with string, and
\* a string with a number after ToNumber, which is 0 for "" and NaN for the
\* other strings of the model (every comparison with NaN but != is false)
compareLiterals(a, op, b) ==
    IF a.k = "num" /\ b.k = "num" THEN compareInts(a.n, op, b.n)
    ELSE IF a.k = "str" /\ b.k = "str"
        THEN compareInts(strRank(a.s), op, strRank(b.s))
    ELSE LET str == IF a.k = "str" THEN a ELSE b IN
         IF str.s = ""
            THEN compareInts(IF a.k = "str" THEN 0 ELSE a.n, op,
                             IF b.k = "str" THEN 0 ELSE b.n)
            ELSE op = "!="

truthy(t) == IF t.k = "num" THEN t.n # 0 ELSE t.s # ""

\* the words of toks up to the first word sep outside, and what follows it
RECURSIVE splitOn(_, _)
splitOn(toks, sep) ==
    LET at == {i \in 1..Len(toks) : toks[i].k = "word" /\ toks[i].s = sep} IN
    IF at = {} THEN <<toks>>
    ELSE LET i == CHOOSE j \in at : \A m \in at : j <= m IN
         <<SubSeq(toks, 1, i - 1)>>
             \o splitOn(SubSeq(toks, i + 1, Len(toks)), sep)

\* one comparison, or one operand alone: "true", "false" or "throw"
evalComparison(c) ==
    IF \E i \in 1..Len(c) : i # 2 /\ isIdentifier(c[i]) THEN "throw"
    ELSE IF Len(c) = 1 THEN (IF truthy(c[1]) THEN "true" ELSE "false")
    ELSE IF compareLiterals(c[1], c[2].s, c[3]) THEN "true" ELSE "false"

\* a && b && ...: left to right, stopping at the first that is not true
RECURSIVE evalAnd(_)
evalAnd(cs) ==
    LET r == evalComparison(Head(cs)) IN
    IF r # "true" \/ Len(cs) = 1 THEN r ELSE evalAnd(Tail(cs))

\* a || b || ...: left to right, stopping at the first that is not false
RECURSIVE evalOr(_)
evalOr(ds) ==
    LET r == evalAnd(splitOn(Head(ds), "&&")) IN
    IF r # "false" \/ Len(ds) = 1 THEN r ELSE evalOr(Tail(ds))

\* eval(cond) as the if of line 221 sees it: "true" or "false" for the
\* truthiness of the value, "throw" for an exception
jsEval(toks) ==
    IF ~parses(toks, 1, "left") THEN "throw"
    ELSE evalOr(splitOn(toks, "||"))

\* try { if (eval(cond)) ... } catch (e) { console.warn(...) }: an exception
\* of eval ends in the catch block and the loop goes on
tryEval_rethrow(toks) == jsEval(toks)

tryEval(toks) ==
    LET r == jsEval(toks) IN IF r = "throw" THEN "caught" ELSE r

(* Task3/app.js:206 executeRules, from rule i on.  It ends by a return
   (kind "return" and the value) or by an exception that leaves the function
   (kind "throw"); evaluated lists the rules whose condition went to eval. *)

RECURSIVE executeFrom(_, _, _, _)
executeFrom(d, rules, i, evaluated) ==
    IF i > Len(rules)
        THEN [kind |-> "return", value |-> "NO_ACTION",
              evaluated |-> evaluated]
    ELSE LET rule == rules[i] IN
         IF rule.type = "fallback"
            THEN [kind |-> "return", value |-> rule.result,
                  evaluated |-> evaluated]
         ELSE IF rule.type = "conditional"
            THEN LET cond == substitute(rule.condition, d)
                     r    == tryEval(cond)
                     seen == Append(evaluated, i) IN
                 IF r = "true"
                    THEN [kind |-> "return", value |-> rule.result,
                          evaluated |-> seen]
                 ELSE IF r = "throw"
                    THEN [kind |-> "throw", value |-> "SyntaxError",
                          evaluated |-> seen]
                 ELSE executeFrom(d, rules, i + 1, seen)
         ELSE executeFrom(d, rules, i + 1, evaluated)

executeRules_lastMatch(d, rules) ==
    LET hits == {i \in 1..Len(rules) :
                    \/ rules[i].type = "fallback"
                    \/ /\ rules[i].type = "conditional"
                       /\ jsEval(substitute(rules[i].condition, d)) = "true"}
    IN  IF hits = {}
            THEN [kind |-> "return", value |-> "NO_ACTION",
                  evaluated |-> <<>>]
            ELSE [kind |-> "return",
                  value |-> rules[CHOOSE i \in hits : \A j \in hits : j <= i]
                                .result,
                  evaluated |-> <<>>]

executeRules_conditionalOnly(d, rules) ==
    executeFrom(d, SelectSeq(rules, LAMBDA r : r.type # "fallback"), 1, <<>>)

executeRules_fallbackLast(d, rules) ==
    LET isFallback(r) == r.type = "fallback" IN
    executeFrom(d, SelectSeq(rules, LAMBDA r : ~isFallback(r))
                       \o SelectSeq(rules, isFallback), 1, <<>>)

executeRules_thanks(d, rules) ==
    LET r == executeFrom(d, rules, 1, <<>>) IN
    IF r.evaluated = <<>> /\ r.value = "NO_ACTION"
       THEN [r EXCEPT !.value = "THANK_ONLY"] ELSE r

executeRules(d, rules) == executeFrom(d, rules, 1, <<>>)

-----------------------------------------------------------------------------
(* The records executeRules is called on *)

\* Task3/app.js:365: what extractSentimentData returns (sentiment and
\* confidence only; the three other fields are absent)
sentimentRecord(sentiment, confidence) ==
    [sentiment |-> sentiment, confidence |-> confidence,
     churn_score |-> 0, monthly_charges |-> 0, segment |-> ""]

\* Task3/app.js:603-621: one row of generateMockData, from the values
\* Math.random() gave: the monthly charges, the coin of the churn score, the
\* sentiment and the confidence (customer_id, tenure and contract, which no
\* rule can read, are left out)
mockRow(monthlyCharges, coin, sentiment, confidence) ==
    LET segment == IF monthlyCharges >= 9000 THEN "VIP"
                   ELSE IF monthlyCharges >= 5000 THEN "STANDARD"
                   ELSE "OTHER"
        churn0 == 30
        churn1 == IF coin THEN churn0 + 40 ELSE churn0
        churn2 == IF segment = "VIP" THEN churn1 - 20 ELSE churn1
    IN  [sentiment |-> sentiment, confidence |-> confidence,
         churn_score |-> churn2, monthly_charges |-> monthlyCharges,
         segment |-> segment]

Sentiments == {"POSITIVE", "NEGATIVE", "NEUTRAL"}

DataSamples ==
    {sentimentRecord(s, c) : s \in Sentiments, c \in {30, 65, 85}}
    \cup {mockRow(9500, TRUE, "NEGATIVE", 75),
          mockRow(6000, TRUE, "NEUTRAL", 90),
          mockRow(2000, FALSE, "POSITIVE", 60)}

-----------------------------------------------------------------------------
(* The instruction texts *)

\* the longest text made of sample lines
MaxLines == 3

\* the rule list of the interpreter's worked example, under a [RULES] header
ExampleInstruction ==
    << <<W("[RULES]")>>,
       <<W("IF"), W("sentiment"), W("=="), S("NEGATIVE"), W("AND"),
         W("confidence"), W(">="), N(80), W("THEN"), W("RETURN"),
         S("EMERGENCY_CALL")>>,
       <<W("IF"), W("sentiment"), W("=="), S("NEGATIVE"), W("AND"),
         W("confidence"), W(">="), N(60), W("THEN"), W("RETURN"),
         S("OFFER_COUPON")>>,
       <<W("RETURN"), S("THANK_ONLY")>> >>

\* the same rules with JavaScript's && in the place of AND
ExampleInstructionJs ==
    << <<W("[RULES]")>>,
       <<W("IF"), W("sentiment"), W("=="), S("NEGATIVE"), W("&&"),
         W("confidence"), W(">="), N(80), W("THEN"), W("RETURN"),
         S("EMERGENCY_CALL")>>,
       <<W("IF"), W("sentiment"), W("=="), S("NEGATIVE"), W("&&"),
         W("confidence"), W(">="), N(60), W("THEN"), W("RETURN"),
         S("OFFER_COUPON")>>,
       <<W("RETURN"), S("THANK_ONLY")>> >>

LineSamples ==
    { <<>>,
      <<W("//"), W("Default:"), W("Thank"), W("customer")>>,
      <<W("[RULES]")>>,
      <<W("[MERMAID]")>>,
      <<W("IF"), W("sentiment"), W("=="), S("NEGATIVE"), W("AND"),
        W("confidence"), W(">="), N(80), W("THEN"), W("RETURN"),
        S("EMERGENCY_CALL")>>,
      <<W("IF"), W("sentiment"), W("=="), S("NEGATIVE"), W("&&"),
        W("confidence"), W(">="), N(60), W("THEN"), W("RETURN"),
        S("OFFER_COUPON")>>,
      <<W("if"), W("confidence"), W("<"), N(60), W("then"), W("return"),
        W("human_review")>>,
      <<W("IF"), W("segment"), W("=="), S("VIP"), W("||"), W("tenure"),
        W(">"), N(1200), W("THEN"), W("RETURN"), S("SUGGEST_UPGRADE")>>,
      <<W("IF"), W("confidence"), W(">="), W("THEN"), W("RETURN"),
        S("NO_ACTION")>>,
      <<W("RETURN"), S("THANK_ONLY")>>,
      <<W("RETURN"), S("PLAN_2")>> }

RECURSIVE textsUpTo(_)
textsUpTo(n) ==
    IF n = 0 THEN {<<>>}
    ELSE LET shorter == textsUpTo(n - 1) IN
         shorter \cup {Append(t, l) : t \in shorter, l \in LineSamples}

Instructions ==
    {DEFAULT_INSTRUCTION, ExampleInstruction, ExampleInstructionJs}
        \cup textsUpTo(MaxLines)

-----------------------------------------------------------------------------
(* Task3/app.js:510 runSimulation: the rows, the cost table and the KPIs.

   Money is held in whole units, churn scores and confidences in hundredths.
   A quotient the code computes in floating point (the coverage, the policy
   score before rounding) is held exactly, as a numerator over a positive
   denominator. *)

\* the rows generateMockData(300) makes in the model
MaxRows == 3

\* Task3/app.js:547
BUDGET_LIMIT == 3500

\* Task3/app.js:627 actionCost: costs[action] || 0
actionCost_coupon20(action) ==
    CASE action = "EMERGENCY_CALL" -> 100
      [] action = "OFFER_COUPON" -> 20
      [] action = "SUGGEST_UPGRADE" -> 10
      [] action = "THANK_AND_CROSSSELL" -> 5
      [] action = "THANK_ONLY" -> 0
      [] action = "HUMAN_REVIEW" -> 15
      [] action = "NO_ACTION" -> 0
      [] OTHER -> 0

actionCost(action) ==
    CASE action = "EMERGENCY_CALL" -> 100
      [] action = "OFFER_COUPON" -> 25
      [] action = "SUGGEST_UPGRADE" -> 10
      [] action = "THANK_AND_CROSSSELL" -> 5
      [] action = "THANK_ONLY" -> 0
      [] action = "HUMAN_REVIEW" -> 15
      [] action = "NO_ACTION" -> 0
      [] OTHER -> 0

\* Number.prototype.toFixed(2) on a value held in hundredths: the decimal
\* text, as its integer part and its two decimals
toFixed2(x) == [int |-> x \div 100, frac |-> x % 100]

\* parseFloat on such a text, in hundredths
parseFloat(t) == t.int * 100 + t.frac

\* Math.round(num / den) for den > 0: the nearest integer, a half going up
round(num, den) == (2 * num + den) \div (2 * den)

\* Task3/app.js:522-538: the enriched row of one row of mockData
enrich(row, rules) ==
    LET ran == executeRules(row, rules) IN
    [segment |-> row.segment,
     churn_score |-> toFixed2(orZero(row.churn_score)),
     sentiment |-> row.sentiment,
     threw |-> ran.kind = "throw",
     action |-> ran.value,
     cost |-> actionCost(ran.value)]

\* enriched.reduce((a, r) => a + r.cost, 0)
RECURSIVE totalCostOf(_)
totalCostOf(enriched) ==
    IF enriched = <<>> THEN 0
    ELSE Head(enriched).cost + totalCostOf(Tail(enriched))

\* Task3/app.js:542 enriched.filter(r => parseFloat(r.churn_score) >= 0.7),
\* as the positions of the rows it keeps
highRiskOf_strict(enriched) ==
    {i \in 1..Len(enriched) : parseFloat(enriched[i].churn_score) > 70}

highRiskOf(enriched) ==
    {i \in 1..Len(enriched) : parseFloat(enriched[i].churn_score) >= 70}

\* Task3/app.js:543 highRisk.filter(r => r.action !== "NO_ACTION")
highRiskCoveredOf(enriched) ==
    {i \in highRiskOf(enriched) : enriched[i].action # "NO_ACTION"}

(* Task3/app.js:546-559, the policy score of a coverage covered/highRisk (0
   when highRisk is 0) and a total cost.  With h = max(highRisk, 1) every
   term is a multiple of 1 / (31500 * h):
       safetyScore     = min(50, (coverage / 0.9) * 50)
       efficiencyScore = 30 + 20 * (1 - totalCost / BUDGET_LIMIT)
       penalty         = (totalCost - BUDGET_LIMIT) * 0.1 *)

scoreDen(highRisk) == 31500 * (IF highRisk = 0 THEN 1 ELSE highRisk)

safetyScore(covered, highRisk) ==
    LET den == scoreDen(highRisk)
        raw == IF highRisk = 0 THEN 0
               ELSE 500 * covered * (den \div (9 * highRisk))
    IN  IF 50 * den < raw THEN 50 * den ELSE raw

efficiencyScore(highRisk, totalCost) ==
    LET den == scoreDen(highRisk) IN
    IF totalCost <= BUDGET_LIMIT
       THEN 30 * den + (20 * den - 20 * totalCost * (den \div BUDGET_LIMIT))
       ELSE 0

penalty(highRisk, totalCost) ==
    LET den == scoreDen(highRisk) IN
    IF totalCost > BUDGET_LIMIT
       THEN (totalCost - BUDGET_LIMIT) * (den \div 10)
       ELSE 0

finalScore_unclamped(covered, highRisk, totalCost) ==
    round(safetyScore(covered, highRisk)
              + efficiencyScore(highRisk, totalCost)
              - penalty(highRisk, totalCost),
          scoreDen(highRisk))

finalScore(covered, highRisk, totalCost) ==
    LET rounded == round(safetyScore(covered, highRisk)
                             + efficiencyScore(highRisk, totalCost)
                             - penalty(highRisk, totalCost),
                         scoreDen(highRisk))
    IN  IF rounded < 0 THEN 0 ELSE rounded

\* Task3/app.js:562-567: what runSimulation writes to the KPI elements
kpiOf(enriched) ==
    LET totalCost == totalCostOf(enriched)
        highRisk == Cardinality(highRiskOf(enriched))
        highRiskCovered == Cardinality(highRiskCoveredOf(enriched))
    IN  [kpiRows |-> Len(enriched),
         totalCost |-> totalCost,
         highRisk |-> highRisk,
         highRiskCovered |-> highRiskCovered,
         kpiCoverage |-> IF highRisk = 0 THEN 0
                         ELSE round(100 * highRiskCovered, highRisk),
         kpiScore |-> finalScore(highRiskCovered, highRisk, totalCost),
         kpiActions |-> Cardinality({i \in 1..Len(enriched) :
                                        enriched[i].action # "NO_ACTION"})]

\* the KPI elements before any run
NoKpi ==
    [kpiRows |-> 0, totalCost |-> 0, highRisk |-> 0, highRiskCovered |-> 0,
     kpiCoverage |-> 0, kpiScore |-> 0, kpiActions |-> 0]

\* rows of generateMockData: a STANDARD and an OTHER customer at churn 0.7, a
\* VIP at 0.5 and an OTHER customer at 0.3
RowSamples ==
    {mockRow(6000, TRUE, "NEGATIVE", 85),
     mockRow(2000, TRUE, "POSITIVE", 90),
     mockRow(9500, TRUE, "NEGATIVE", 65),
     mockRow(2000, FALSE, "NEUTRAL", 75)}

\* what generateMockData can return: MaxRows rows, each of any sample
MockDataSets == [1..MaxRows -> RowSamples]

\* the texts the user leaves in the instruction field
InstructionEdits ==
    {DEFAULT_INSTRUCTION,
     ExampleInstructionJs,
     << <<W("[RULES]")>>,
        <<W("IF"), W("sentiment"), W("=="), S("NEGATIVE"), W("&&"),
          W("confidence"), W(">="), N(60), W("THEN"), W("RETURN"),
          S("OFFER_COUPON")>> >>,
     << <<W("[RULES]")>>,
        <<W("IF"), W("segment"), W("=="), S("VIP"), W("||"), W("tenure"),
          W(">"), N(1200), W("THEN"), W("RETURN"), S("SUGGEST_UPGRADE")>>,
        <<W("IF"), W("sentiment"), W("=="), S("POSITIVE"), W("THEN"),
          W("RETURN"), S("NO_ACTION")>>,
        <<W("RETURN"), S("VIP")>> >>,
     <<>>}

\* the inputs of the policy score arithmetic
MaxHighRisk == 4

CostSamples ==
    {0, 5, 100, 1750, 3495, 3500, 3505, 3750, 4000, 4005, 4500, 30000}

NoScoreCall ==
    [covered |-> 0, highRisk |-> 0, totalCost |-> 0, called |-> FALSE,
     finalScore |-> 0]

\* no simulation run, no edit
SimIdle ==
    /\ mockData = <<>>
    /\ outTable = <<>>
    /\ kpi = NoKpi
    /\ simStatus = ""
    /\ pendingRenders = 0
    /\ acts = 0
    /\ scoreCall = NoScoreCall

-----------------------------------------------------------------------------
(* The application variants.

   Task3_277   Task3/app.js:277   local model, rule interpreter, logging
   Task3_859   Task3/app.js:859   local model, 3-bucket selector, logging
   Task2_144   Task2/app.js:144   local model, logging, no business action
   Task2_430   Task2/app.js:430   remote API, display only
   Task2_812   Task2/app.js:812   local model, action code in the log only
   Task2_1050  Task2/app.js:1050  remote API, 3-bucket selector, logging
   part000     unnamed/part_000   remote API or mock, 5-bucket selector,
                                  logging *)

Variants ==
    {"Task3_277", "Task3_859", "Task2_144", "Task2_430", "Task2_812",
     "Task2_1050", "part000"}

\* the most analyze clicks, simulation runs and text edits of one page
\* session
MaxEvents == 2

\* the most reviews the TSV file holds
MaxReviews == 2

EventIds == 1..MaxEvents

\* reviews are named by their position in the file
ReviewLists == {[i \in 1..n |-> i] : n \in 0..MaxReviews}

(* What the classifier call settles with.  shape is "reject" when the call
   fails (the pipeline rejects, fetch rejects, the status is not OK or the
   body is not JSON), "notArray" and "emptyArray" for a value that is not a
   non-empty array, "flat" for [elem, ...] and "nested" for [[elem, ...]].
   elem is "null" or an "object" whose label is a string, a number or
   missing (labelT) and whose score is a number, a numeric string or
   missing (scoreT); label is the text of a string label and score the
   numeric value, in hundredths, of a number or numeric string. *)

Output(shape, elem, labelT, lbl, scoreT, s) ==
    [shape |-> shape, elem |-> elem, labelT |-> labelT, label |-> lbl,
     scoreT |-> scoreT, score |-> s]

NoOutput == Output("none", "null", "missing", "", "missing", 0)

Elems ==
    {<<"null", "missing", "", "missing", 0>>,
     <<"object", "missing", "", "missing", 0>>,
     <<"object", "string", "POSITIVE", "number", 95>>,
     <<"object", "string", "POSITIVE", "number", 60>>,
     <<"object", "string", "negative", "number", 85>>,
     <<"object", "string", "NEGATIVE", "number", 65>>,
     <<"object", "string", "NEUTRAL", "number", 65>>,
     <<"object", "string", "MIXED", "number", 90>>,
     <<"object", "string", "", "number", 50>>,
     <<"object", "number", "", "number", 90>>,
     <<"object", "string", "POSITIVE", "missing", 0>>,
     <<"object", "string", "POSITIVE", "string", 90>>,
     <<"object", "string", "NEGATIVE", "number", 0>>}

\* the variants that read the first element of a nested array, [[elem]]; the
\* others read the first element of a flat one
NestedReaders == {"Task2_430", "Task2_1050"}

\* what the classifier call of the page's variant can settle with: every
\* element in the array form the variant reads, and one output of the other
\* form, of which the variant reads no element
Outputs ==
    LET read  == IF variant \in NestedReaders THEN "nested" ELSE "flat"
        other == IF variant \in NestedReaders THEN "flat" ELSE "nested"
    IN  {Output(shape, "null", "missing", "", "missing", 0) :
            shape \in {"reject", "notArray", "emptyArray"}}
        \cup {Output(read, e[1], e[2], e[3], e[4], e[5]) : e \in Elems}
        \cup {Output(other, "object", "string", "POSITIVE", "number", 95)}

(* A sentiment as the page holds it: the label and its type, the score and
   its type.  An undefined label is held as "" and an undefined score as 0,
   with type "undefined". *)

Sentiment(labelT, lbl, scoreT, s) ==
    [labelT |-> labelT, label |-> lbl, scoreT |-> scoreT, score |-> s]

NoSentiment == Sentiment("none", "", "none", 0)

\* the outcome of a function that may throw
Threw == [threw |-> TRUE, value |-> NoSentiment]
Returned(v) == [threw |-> FALSE, value |-> v]

\* Task2/app.js:271 and Task3/app.js:327 analyzeSentiment: whether the
\* call throws ("Invalid sentiment output from local model.")
analyzeSentiment_throws(out) ==
    out.shape \in {"reject", "notArray", "emptyArray"}

\* result[0][0] of the wrapped output [output], for extractSentimentData and
\* the displaySentiment of Task2/app.js:291: the first element of a flat
\* output; of a nested output its first element is an array, an object that
\* has no label and no score
firstOfWrapped(out) ==
    IF out.shape = "flat" THEN out
    ELSE Output("flat", "object", "missing", "", "missing", 0)

\* Task3/app.js:344 and Task2/app.js:194 extractSentimentData on [output]
extractSentimentData(out) ==
    LET sentimentData == firstOfWrapped(out) IN
    IF sentimentData.elem = "object"
       THEN Sentiment("string",
                      IF sentimentData.labelT = "string"
                         THEN toUpperCase(sentimentData.label)
                         ELSE "NEUTRAL",
                      "number",
                      IF sentimentData.scoreT = "number"
                         THEN sentimentData.score
                         ELSE 50)
       ELSE Sentiment("string", "NEUTRAL", "number", 50)

\* Task2/app.js:291 displaySentiment: the label and score it displays
displaySentiment_Task2_291(out) == extractSentimentData(out)

\* Task2/app.js:541 displaySentiment on the API's JSON: the label and score
\* it displays, or the TypeError of reading a property of null or of calling
\* toUpperCase on a number
displaySentiment_Task2_541(out) ==
    IF out.shape # "nested"
       THEN Returned(Sentiment("string", "NEUTRAL", "number", 50))
    ELSE IF out.elem = "null" \/ out.labelT = "number" THEN Threw
    ELSE Returned(Sentiment(
             "string",
             IF out.labelT = "string" /\ toUpperCase(out.label) # ""
                THEN toUpperCase(out.label) ELSE "NEUTRAL",
             IF out.scoreT = "missing" THEN "number" ELSE out.scoreT,
             IF out.scoreT = "missing" THEN 50 ELSE out.score))

\* unnamed/part_000:217 parseSentimentResult
parseSentimentResult(apiResponse) ==
    IF apiResponse.shape \in {"notArray", "emptyArray"} THEN Threw
    ELSE IF apiResponse.shape = "nested" THEN Threw
    ELSE IF apiResponse.elem = "null" THEN Threw
    ELSE LET labelTruthy ==
                 \/ apiResponse.labelT = "number"
                 \/ apiResponse.labelT = "string" /\ apiResponse.label # ""
             scoreTruthy ==
                 /\ apiResponse.scoreT \in {"number", "string"}
                 /\ apiResponse.score # 0
         IN  IF ~(labelTruthy /\ scoreTruthy) THEN Threw
             ELSE IF apiResponse.labelT = "number" THEN Threw
             ELSE Returned(Sentiment("string",
                                     toUpperCase(apiResponse.label),
                                     apiResponse.scoreT, apiResponse.score))

\* Task3/app.js:1017 displaySentiment on [output]: the label and score it
\* displays and the action it hands to displayBusinessAction
displaySentiment_Task3_1017(out) ==
    LET sentimentData == firstOfWrapped(out)
        isObject == sentimentData.elem = "object"
        lbl == IF isObject /\ sentimentData.labelT = "string"
                  THEN toUpperCase(sentimentData.label) ELSE "NEUTRAL"
        s   == IF isObject /\ sentimentData.scoreT = "number"
                  THEN sentimentData.score ELSE 50
    IN  [sentiment |-> Sentiment("string", lbl, "number", s),
         actionData |-> determineBusinessAction_Task3_802(s, lbl)]

extractSentimentData_Task3_912_raw(result) ==
    LET sentimentData == firstOfWrapped(result)
        isObject == sentimentData.elem = "object"
        sentiment == IF isObject /\ sentimentData.labelT = "string"
                        THEN sentimentData.label ELSE "NEUTRAL"
        s == IF isObject /\ sentimentData.scoreT = "number"
                THEN sentimentData.score ELSE 50
        actionData == determineBusinessAction_Task3_802(s, sentiment)
    IN  [sentiment |-> sentiment, confidence |-> s,
         actionCode |-> actionData.actionCode,
         normalizedScore |-> actionData.normalizedScore]

\* Task3/app.js:912 extractSentimentData on [output]: the record handed to
\* logToGoogleSheets
extractSentimentData_Task3_912(result) ==
    LET sentimentData == firstOfWrapped(result)
        isObject == sentimentData.elem = "object"
        sentiment == IF isObject /\ sentimentData.labelT = "string"
                        THEN toUpperCase(sentimentData.label) ELSE "NEUTRAL"
        s == IF isObject /\ sentimentData.scoreT = "number"
                THEN sentimentData.score ELSE 50
        actionData == determineBusinessAction_Task3_802(s, sentiment)
    IN  [sentiment |-> sentiment, confidence |-> s,
         actionCode |-> actionData.actionCode,
         normalizedScore |-> actionData.normalizedScore]

\* Task2/app.js:846 displaySentiment on [output]: the label and score it
\* displays and logs, or the TypeError of calling toUpperCase on a label
\* that is no string.  result[0]?.[0] is falsy for an output that has no
\* first element or a null one; the first element of a nested output is an
\* array, which has no label
displaySentiment_Task2_846(out) ==
    IF out.shape \in {"notArray", "emptyArray"}
       THEN Returned(Sentiment("string", "NEUTRAL", "number", 50))
    ELSE IF out.shape = "nested" THEN Threw
    ELSE IF out.elem = "null"
       THEN Returned(Sentiment("string", "NEUTRAL", "number", 50))
    ELSE IF out.labelT # "string" THEN Threw
    ELSE Returned(Sentiment(
             "string", toUpperCase(out.label),
             IF out.scoreT = "missing" THEN "undefined" ELSE out.scoreT,
             IF out.scoreT = "missing" THEN 0 ELSE out.score))

\* Task2/app.js:884 action_taken of the payload: getActionCode on the label
\* and score of displaySentiment; an undefined score makes normalized NaN
\* or undefined, and both comparisons of getActionCode false
actionTaken_Task2_884(sentiment) ==
    IF sentiment.scoreT = "undefined" THEN "ASK_REFERRAL"
    ELSE getActionCode(sentiment.score, sentiment.label)

\* Task2/app.js:1126 displaySentiment on the API's JSON: the label and score
\* it displays and returns, or the TypeError of reading a property of null
\* or of calling toUpperCase on a number.  A score of 0 is falsy and
\* replaced by 0.5
displaySentiment_Task2_1126(result) ==
    IF result.shape # "nested"
       THEN Returned(Sentiment("string", "NEUTRAL", "number", 50))
    ELSE IF result.elem = "null" \/ result.labelT = "number" THEN Threw
    ELSE Returned(Sentiment(
             "string",
             IF result.labelT = "string" THEN toUpperCase(result.label)
             ELSE "",
             IF result.scoreT = "missing" \/ result.score = 0
                THEN "number" ELSE result.scoreT,
             IF result.scoreT = "missing" \/ result.score = 0
                THEN 50 ELSE result.score))

\* unnamed/part_000:139: the promise getMockSentiment() returns, which the
\* conditional expression does not await; it has no label and no score
mockPromise == Sentiment("undefined", "", "undefined", 0)

\* the payload of one log POST; processingTimeFrom is the invocation whose
\* start the meta.processingTime of the payload is measured from (0 where
\* the payload carries no processing time); normalized_score is in
\* hundredths, -1 where the payload carries none or one that is no number
Payload(e, review, sentiment, action) ==
    [event |-> e, review |-> review, sentiment |-> sentiment,
     action_taken |-> action, processingTimeFrom |-> 0,
     normalized_score |-> -1]

\* Task2/app.js:879-891: the payload of logToGoogleSheets(review, sentiment,
\* confidence); 1 - undefined is NaN
payload_Task2_879(e, review, sentiment) ==
    [Payload(e, review, sentiment, actionTaken_Task2_884(sentiment))
        EXCEPT !.normalized_score =
                  IF sentiment.scoreT = "undefined" THEN -1
                  ELSE IF sentiment.label = "NEGATIVE"
                     THEN 100 - sentiment.score
                  ELSE sentiment.score]

\* Task2/app.js:1226-1238: logData of logToGoogleSheet(review, sentimentData,
\* decision)
logData_Task2_1226(e, review, sentimentData, decided) ==
    [Payload(e, review, sentimentData, decided.actionCode)
        EXCEPT !.normalized_score =
                  IF sentimentData.label = "POSITIVE"
                     THEN sentimentData.score
                  ELSE 100 - sentimentData.score]

\* Task3/app.js:961-969: the payload of logToGoogleSheets(review,
\* sentimentData)
payload_Task3_961(e, review, sentimentData) ==
    [Payload(e, review,
             Sentiment("string", sentimentData.sentiment, "number",
                       sentimentData.confidence),
             sentimentData.actionCode)
        EXCEPT !.normalized_score = sentimentData.normalizedScore]

\* unnamed/part_000:380-392: logData, with processingTime: Date.now() -
\* startTime read from the shared variable as it is when the payload is made
logData_part000_own(e, review, sentiment, action, start) ==
    [Payload(e, review, sentiment, action)
        EXCEPT !.processingTimeFrom = e]

logData_part000(e, review, sentiment, action, start) ==
    [Payload(e, review, sentiment, action)
        EXCEPT !.processingTimeFrom = start]

\* how the POST of a log payload can end: response.ok and a readable body, a
\* rejected fetch, a status that is not OK, a body that cannot be read
PostOutcomes == {"ok", "networkError", "notOk", "badBody"}

\* the variants whose analyzeRandomReview awaits logToGoogleSheets
AwaitsLog == {"Task3_277", "part000"}

logToGoogleSheets_rethrow(v, outcome) ==
    LET failed == \/ outcome \in {"networkError", "notOk"}
                  \/ outcome = "badBody"
                        /\ v \notin {"Task2_812", "Task2_1050"}
    IN  [settled |-> IF failed THEN "rejected" ELSE "resolved",
         console |-> IF failed THEN "warned" ELSE "logged"]

\* logToGoogleSheets once its POST ended: how its promise settles and what
\* it writes to the console; the catch block swallows every failure.
\* Task2/app.js:878 and :1218 do not read the body of an OK response
logToGoogleSheets(v, outcome) ==
    LET failed == \/ outcome \in {"networkError", "notOk"}
                  \/ outcome = "badBody"
                        /\ v \notin {"Task2_812", "Task2_1050"}
    IN  [settled |-> "resolved",
         console |-> IF failed THEN "warned" ELSE "logged"]

(* One analyzeRandomReview invocation: where it is (pc), whether the review
   list was empty when it began, the review it selected, what the classifier
   settled with, what the invocation has done so far, and its log POST
   ("none", "pending", or what logToGoogleSheets wrote to the console when
   the POST ended).  rulesAtStart is the value businessRules had when an
   invocation of Task3/app.js:277 began; the code keeps no such copy. *)

Event(pc, emptyAtStart, review, out, called, error, sentiment, action,
      logged, outcome, btnAtEnd, loadingAtEnd, post) ==
    [pc |-> pc, emptyAtStart |-> emptyAtStart, review |-> review,
     out |-> out, called |-> called, error |-> error,
     sentiment |-> sentiment, action |-> action, logged |-> logged,
     outcome |-> outcome, btnAtEnd |-> btnAtEnd,
     loadingAtEnd |-> loadingAtEnd, post |-> post, rulesAtStart |-> <<>>]

NoEvent ==
    Event("idle", FALSE, 0, NoOutput, FALSE, FALSE, NoSentiment, "", FALSE,
          "", FALSE, FALSE, "none")

AppIdle ==
    /\ variant = "Task3_277"
    /\ reviews = <<>>
    /\ loadPending = FALSE
    /\ sentimentPipeline = "null"
    /\ apiToken = ""
    /\ USE_MOCK_API = FALSE
    /\ btnDisabled = FALSE
    /\ loadingShown = FALSE
    /\ errorShown = FALSE
    /\ sentimentShown = NoSentiment
    /\ actionShown = ""
    /\ log = <<>>
    /\ pendingPosts = 0
    /\ ev = [e \in EventIds |-> NoEvent]
    /\ started = 0
    /\ reviewShown = 0
    /\ startTime = 0

-----------------------------------------------------------------------------
(* The rule interpreter on every instruction text and record *)

NoResult == [kind |-> "none", value |-> "", evaluated |-> <<>>]

RuleIdle ==
    /\ instruction = <<>>
    /\ businessRules = <<>>
    /\ parsed = FALSE
    /\ data = sentimentRecord("NEUTRAL", 50)
    /\ ruleResult = NoResult

RuleInit ==
    /\ SelIdle
    /\ AppIdle
    /\ SimIdle
    /\ instruction \in Instructions
    /\ businessRules = <<>>
    /\ parsed = FALSE
    /\ data = sentimentRecord("NEUTRAL", 50)
    /\ ruleResult = NoResult

\* businessRules = parseRules(el("instruction").value)
ParseRules ==
    /\ businessRules' = parseRules(instruction)
    /\ parsed' = TRUE
    /\ ruleResult' = NoResult
    /\ UNCHANGED <<instruction, data, selVars, appVars, simVars>>

\* executeRules(data, businessRules) on one record
ExecuteRules ==
    /\ \E d \in DataSamples :
          /\ data' = d
          /\ ruleResult' = executeRules(d, businessRules)
    /\ UNCHANGED <<instruction, businessRules, parsed, selVars, appVars,
                   simVars>>

RuleNext == ParseRules \/ ExecuteRules

SpecRules == RuleInit /\ [][RuleNext]_vars

-----------------------------------------------------------------------------
(* The selector functions called on every label and confidence *)

SelInit ==
    /\ RuleIdle
    /\ AppIdle
    /\ SimIdle
    /\ label \in Labels
    /\ score \in Scores
    /\ applied = "none"
    /\ decision = "none"

Call_getNormalizedScore ==
    /\ applied' = "getNormalizedScore"
    /\ decision' = getNormalizedScore(score, label)
    /\ UNCHANGED <<label, score, ruleVars, appVars, simVars>>

Call_determineBusinessAction_Task2_495 ==
    /\ applied' = "determineBusinessAction_Task2_495"
    /\ decision' = determineBusinessAction_Task2_495(score, label)
    /\ UNCHANGED <<label, score, ruleVars, appVars, simVars>>

Call_determineBusinessAction_Task2_1008 ==
    /\ applied' = "determineBusinessAction_Task2_1008"
    /\ decision' = determineBusinessAction_Task2_1008(score, label)
    /\ UNCHANGED <<label, score, ruleVars, appVars, simVars>>

Call_getActionCode ==
    /\ applied' = "getActionCode"
    /\ decision' = getActionCode(score, label)
    /\ UNCHANGED <<label, score, ruleVars, appVars, simVars>>

Call_determineBusinessAction_Task3_802 ==
    /\ applied' = "determineBusinessAction_Task3_802"
    /\ decision' = determineBusinessAction_Task3_802(score, label)
    /\ UNCHANGED <<label, score, ruleVars, appVars, simVars>>

Call_determineBusinessAction_part000 ==
    /\ applied' = "determineBusinessAction_part000"
    /\ decision' = determineBusinessAction_part000(
                       [label |-> label, score |-> score])
    /\ UNCHANGED <<label, score, ruleVars, appVars, simVars>>

SelNext ==
    \/ Call_getNormalizedScore
    \/ Call_determineBusinessAction_Task2_495
    \/ Call_determineBusinessAction_Task2_1008
    \/ Call_getActionCode
    \/ Call_determineBusinessAction_Task3_802
    \/ Call_determineBusinessAction_part000

SpecSelect == SelInit /\ [][SelNext]_vars


-----------------------------------------------------------------------------
(* A page session: start-up, analyzeRandomReview and what it waits for *)

AppInit ==
    /\ SelIdle
    /\ SimIdle
    /\ variant \in Variants
    /\ instruction =
          IF variant = "Task3_277" THEN DEFAULT_INSTRUCTION ELSE <<>>
    /\ businessRules = parseRules(instruction)
    /\ parsed = (variant = "Task3_277")
    /\ data = sentimentRecord("NEUTRAL", 50)
    /\ ruleResult = NoResult
    /\ reviews = <<>>
    /\ loadPending = TRUE
    /\ sentimentPipeline =
          IF variant \in {"Task2_144", "Task2_812", "Task3_859"}
             THEN "loading" ELSE "null"
    /\ apiToken \in IF variant \in {"part000", "Task2_1050"}
                       THEN {"", "token"} ELSE {""}
    /\ USE_MOCK_API = (variant = "part000" /\ apiToken = "")
    /\ btnDisabled = FALSE
    /\ loadingShown = FALSE
    /\ errorShown = FALSE
    /\ sentimentShown = NoSentiment
    /\ actionShown = ""
    /\ log = <<>>
    /\ pendingPosts = 0
    /\ ev = [e \in EventIds |-> NoEvent]
    /\ started = 0
    /\ reviewShown = 0
    /\ startTime = 0

\* the click listener of analyze-btn is attached: at once in Task2, after
\* the awaited loadReviews (and initSentimentModel) elsewhere
listening ==
    CASE variant \in {"Task2_144", "Task2_430", "Task2_812", "Task2_1050",
                      "Task3_859"} -> TRUE
      [] variant = "Task3_277" ->
            ~loadPending /\ sentimentPipeline \in {"ready", "failed"}
      [] variant = "part000" -> ~loadPending

\* a click reaches analyzeRandomReview: the listener is attached and the
\* button, which dispatches no click while disabled, is enabled
canClick_whileDisabled == listening /\ started + acts < MaxEvents

canClick == listening /\ ~btnDisabled /\ started + acts < MaxEvents

\* loadReviews of the start-up settles: the fetch fails (ok = FALSE) or the
\* file gives the reviews rs
LoadReviewsSettles ==
    /\ loadPending
    /\ \E ok \in BOOLEAN, rs \in ReviewLists :
          /\ reviews' = IF ok THEN rs ELSE reviews
          /\ errorShown' =
                CASE variant = "Task3_277" -> errorShown
                  [] variant \in {"Task2_144", "Task2_430", "Task2_812",
                                   "Task2_1050", "Task3_859"} ->
                        IF ok THEN errorShown ELSE TRUE
                  [] variant = "part000" ->
                        IF ok /\ rs # <<>> THEN errorShown ELSE TRUE
    /\ loadPending' = FALSE
    /\ sentimentPipeline' =
          IF variant = "Task3_277" THEN "loading" ELSE sentimentPipeline
    /\ UNCHANGED <<variant, reviewShown, startTime, apiToken, USE_MOCK_API,
                   btnDisabled, loadingShown,
                   sentimentShown, actionShown, log, pendingPosts, ev,
                   started, selVars, ruleVars, simVars>>

\* initSentimentModel settles
InitSentimentModelSettles ==
    /\ sentimentPipeline = "loading"
    /\ \E ok \in BOOLEAN :
          /\ sentimentPipeline' = IF ok THEN "ready" ELSE "failed"
          /\ errorShown' =
                IF variant \in {"Task2_144", "Task2_812", "Task3_859"} /\ ~ok
                   THEN TRUE ELSE errorShown
    /\ UNCHANGED <<variant, reviewShown, startTime, reviews, loadPending,
                   apiToken, USE_MOCK_API,
                   btnDisabled, loadingShown, sentimentShown, actionShown,
                   log, pendingPosts, ev, started, selVars, ruleVars, simVars>>

\* an invocation that ends in its first synchronous step and shows nothing
EndedAtOnce_silent(outcome) ==
    [NoEvent EXCEPT !.pc = "done",
                    !.emptyAtStart = (reviews = <<>>),
                    !.outcome = outcome,
                    !.btnAtEnd = btnDisabled,
                    !.loadingAtEnd = loadingShown]

\* an invocation that ends in its first synchronous step with an error shown
EndedAtOnce(outcome) ==
    [NoEvent EXCEPT !.pc = "done",
                    !.emptyAtStart = (reviews = <<>>),
                    !.error = TRUE,
                    !.outcome = outcome,
                    !.btnAtEnd = btnDisabled,
                    !.loadingAtEnd = loadingShown]

\* an invocation that selected review r and waits for the classifier
Classifying(r) ==
    [NoEvent EXCEPT !.pc = "classifying", !.review = r, !.called = TRUE]

\* Task3/app.js:277 analyzeRandomReview up to await analyzeSentiment
Click_Task3_277 ==
    /\ variant = "Task3_277"
    /\ canClick
    /\ started' = started + 1
    /\ IF reviews = <<>> \/ sentimentPipeline # "ready"
          THEN /\ ev' = [ev EXCEPT ![started + 1] =
                           EndedAtOnce(IF reviews = <<>> THEN "noReviews"
                                       ELSE "notReady")]
               /\ errorShown' = TRUE
               /\ UNCHANGED <<reviewShown, btnDisabled, loadingShown,
                              sentimentShown,
                              actionShown>>
          ELSE /\ \E r \in 1..Len(reviews) :
                     /\ ev' = [ev EXCEPT ![started + 1] =
                                 [Classifying(r) EXCEPT
                                     !.rulesAtStart = businessRules]]
                     /\ reviewShown' = r
               /\ loadingShown' = TRUE
               /\ btnDisabled' = TRUE
               /\ sentimentShown' = NoSentiment
               /\ actionShown' = ""
               /\ UNCHANGED errorShown
    /\ UNCHANGED <<variant, startTime, reviews, loadPending,
                   sentimentPipeline, apiToken,
                   USE_MOCK_API, log, pendingPosts, selVars, ruleVars,
                   simVars>>

\* Task2/app.js:144 analyzeRandomReview up to the call of analyzeSentiment
Click_Task2_144 ==
    /\ variant = "Task2_144"
    /\ canClick
    /\ started' = started + 1
    /\ IF reviews = <<>> \/ sentimentPipeline # "ready"
          THEN /\ ev' = [ev EXCEPT ![started + 1] =
                           EndedAtOnce(IF reviews = <<>> THEN "noReviews"
                                       ELSE "notReady")]
               /\ errorShown' = TRUE
               /\ UNCHANGED <<reviewShown, btnDisabled, loadingShown,
                              sentimentShown>>
          ELSE /\ \E r \in 1..Len(reviews) :
                     /\ ev' = [ev EXCEPT ![started + 1] = Classifying(r)]
                     /\ reviewShown' = r
               /\ errorShown' = FALSE
               /\ loadingShown' = TRUE
               /\ btnDisabled' = TRUE
               /\ sentimentShown' = NoSentiment
    /\ UNCHANGED <<variant, startTime, reviews, loadPending,
                   sentimentPipeline, apiToken,
                   USE_MOCK_API, actionShown, log, pendingPosts, selVars,
                   ruleVars, simVars>>

\* Task2/app.js:430 analyzeRandomReview up to the call of analyzeSentiment
Click_Task2_430 ==
    /\ variant = "Task2_430"
    /\ canClick
    /\ started' = started + 1
    /\ IF reviews = <<>>
          THEN /\ ev' = [ev EXCEPT ![started + 1] = EndedAtOnce("noReviews")]
               /\ errorShown' = TRUE
               /\ UNCHANGED <<reviewShown, btnDisabled, loadingShown,
                              sentimentShown>>
          ELSE /\ \E r \in 1..Len(reviews) :
                     /\ ev' = [ev EXCEPT ![started + 1] = Classifying(r)]
                     /\ reviewShown' = r
               /\ errorShown' = FALSE
               /\ loadingShown' = TRUE
               /\ btnDisabled' = TRUE
               /\ sentimentShown' = NoSentiment
    /\ UNCHANGED <<variant, startTime, reviews, loadPending,
                   sentimentPipeline, apiToken,
                   USE_MOCK_API, actionShown, log, pendingPosts, selVars,
                   ruleVars, simVars>>

\* Task3/app.js:859 analyzeRandomReview up to the call of analyzeSentiment
Click_Task3_859 ==
    /\ variant = "Task3_859"
    /\ canClick
    /\ started' = started + 1
    /\ IF reviews = <<>> \/ sentimentPipeline # "ready"
          THEN /\ ev' = [ev EXCEPT ![started + 1] =
                           EndedAtOnce(IF reviews = <<>> THEN "noReviews"
                                       ELSE "notReady")]
               /\ errorShown' = TRUE
               /\ UNCHANGED <<reviewShown, btnDisabled, loadingShown,
                              sentimentShown,
                              actionShown>>
          ELSE /\ \E r \in 1..Len(reviews) :
                     /\ ev' = [ev EXCEPT ![started + 1] = Classifying(r)]
                     /\ reviewShown' = r
               /\ errorShown' = FALSE
               /\ loadingShown' = TRUE
               /\ btnDisabled' = TRUE
               /\ sentimentShown' = NoSentiment
               /\ actionShown' = ""
    /\ UNCHANGED <<variant, startTime, reviews, loadPending,
                   sentimentPipeline, apiToken,
                   USE_MOCK_API, log, pendingPosts, selVars, ruleVars,
                   simVars>>

\* Task2/app.js:812 analyzeRandomReview up to the call of analyzeSentiment
Click_Task2_812 ==
    /\ variant = "Task2_812"
    /\ canClick
    /\ started' = started + 1
    /\ IF sentimentPipeline # "ready" \/ reviews = <<>>
          THEN /\ ev' = [ev EXCEPT ![started + 1] =
                           EndedAtOnce(IF reviews = <<>> THEN "noReviews"
                                       ELSE "notReady")]
               /\ errorShown' = TRUE
               /\ UNCHANGED <<reviewShown, btnDisabled, loadingShown,
                              sentimentShown>>
          ELSE /\ \E r \in 1..Len(reviews) :
                     /\ ev' = [ev EXCEPT ![started + 1] = Classifying(r)]
                     /\ reviewShown' = r
               /\ errorShown' = FALSE
               /\ loadingShown' = TRUE
               /\ btnDisabled' = TRUE
               /\ sentimentShown' = NoSentiment
    /\ UNCHANGED <<variant, startTime, reviews, loadPending,
                   sentimentPipeline, apiToken,
                   USE_MOCK_API, actionShown, log, pendingPosts, selVars,
                   ruleVars, simVars>>

\* Task2/app.js:1050 analyzeRandomReview up to the fetch of analyzeSentiment;
\* without a token analyzeSentiment rejects at once, and the catch and the
\* finally run before any other handler
Click_Task2_1050 ==
    /\ variant = "Task2_1050"
    /\ canClick
    /\ started' = started + 1
    /\ IF reviews = <<>>
          THEN /\ ev' = [ev EXCEPT ![started + 1] = EndedAtOnce("noReviews")]
               /\ errorShown' = TRUE
               /\ UNCHANGED <<reviewShown, btnDisabled, loadingShown,
                              sentimentShown,
                              actionShown>>
          ELSE /\ \E r \in 1..Len(reviews) :
                     /\ ev' = [ev EXCEPT ![started + 1] =
                                 IF apiToken = ""
                                    THEN [NoEvent EXCEPT !.pc = "done",
                                                         !.review = r,
                                                         !.error = TRUE,
                                                         !.outcome = "failed"]
                                    ELSE Classifying(r)]
                     /\ reviewShown' = r
               /\ errorShown' = (apiToken = "")
               /\ loadingShown' = (apiToken # "")
               /\ btnDisabled' = (apiToken # "")
               /\ sentimentShown' = NoSentiment
               /\ actionShown' = ""
    /\ UNCHANGED <<variant, startTime, reviews, loadPending,
                   sentimentPipeline, apiToken,
                   USE_MOCK_API, log, pendingPosts, selVars, ruleVars,
                   simVars>>

\* Task2/app.js:994 saveApiToken: the change listener of the token field
SaveApiToken ==
    /\ variant = "Task2_1050"
    /\ \E token \in {"", "token"} \ {apiToken} : apiToken' = token
    /\ UNCHANGED <<variant, reviewShown, startTime, reviews, loadPending,
                   sentimentPipeline,
                   USE_MOCK_API, btnDisabled, loadingShown, errorShown,
                   sentimentShown, actionShown, log, pendingPosts, ev,
                   started, selVars, ruleVars, simVars>>

\* an invocation whose try block threw: the catch shows the error and the
\* finally re-enables the button and hides the loading indicator
Failed(e, out) ==
    [ev[e] EXCEPT !.pc = "done", !.out = out, !.error = TRUE,
                  !.outcome = "failed", !.btnAtEnd = FALSE,
                  !.loadingAtEnd = FALSE]

\* an invocation that displayed sentiment and action and POSTed the log
\* payload, and waits for the POST
Logging(e, out, sentiment, action) ==
    [ev[e] EXCEPT !.pc = "logging", !.out = out, !.sentiment = sentiment,
                  !.action = action, !.logged = TRUE, !.post = "pending"]

\* an invocation whose finally ran after a displayed result
Succeeded(rec) ==
    [rec EXCEPT !.pc = "done", !.outcome = "ok", !.btnAtEnd = FALSE,
                !.loadingAtEnd = FALSE]

\* unnamed/part_000:114-152: analyzeRandomReview from the loading state up
\* to its first await, for invocation e and the review list rs
BeginAnalysis_part000(e, wasEmpty, rs) ==
    \E r \in 1..Len(rs) :
       LET begun == [NoEvent EXCEPT !.emptyAtStart = wasEmpty, !.review = r]
       IN
       IF USE_MOCK_API THEN
          LET sentimentResult == mockPromise
              actionData == determineBusinessAction_part000(
                                [label |-> sentimentResult.label,
                                 score |-> sentimentResult.score])
          IN  /\ ev' = [ev EXCEPT ![e] =
                          [begun EXCEPT !.pc = "logging", !.called = TRUE,
                                        !.sentiment = sentimentResult,
                                        !.action = actionData.action,
                                        !.logged = TRUE,
                                        !.post = "pending"]]
              /\ reviewShown' = r
              /\ startTime' = e
              /\ btnDisabled' = TRUE
              /\ loadingShown' = TRUE
              /\ errorShown' = FALSE
              /\ sentimentShown' = sentimentResult
              /\ actionShown' = actionData.action
              /\ log' = Append(log, logData_part000(e, r, sentimentResult,
                                                    actionData.action, e))
       ELSE IF apiToken = "" THEN
              /\ ev' = [ev EXCEPT ![e] =
                          [begun EXCEPT !.pc = "done", !.error = TRUE,
                                        !.outcome = "failed"]]
              /\ reviewShown' = r
              /\ startTime' = e
              /\ btnDisabled' = FALSE
              /\ loadingShown' = FALSE
              /\ errorShown' = TRUE
              /\ actionShown' = ""
              /\ UNCHANGED <<sentimentShown, log>>
       ELSE   /\ ev' = [ev EXCEPT ![e] =
                          [begun EXCEPT !.pc = "classifying",
                                        !.called = TRUE]]
              /\ reviewShown' = r
              /\ startTime' = e
              /\ btnDisabled' = TRUE
              /\ loadingShown' = TRUE
              /\ errorShown' = FALSE
              /\ actionShown' = ""
              /\ UNCHANGED <<sentimentShown, log>>

\* unnamed/part_000:107 analyzeRandomReview up to its first await
Click_part000 ==
    /\ variant = "part000"
    /\ canClick
    /\ started' = started + 1
    /\ IF reviews = <<>>
          THEN /\ ev' = [ev EXCEPT ![started + 1] =
                           [NoEvent EXCEPT !.pc = "reloading",
                                           !.emptyAtStart = TRUE]]
               /\ UNCHANGED <<reviewShown, startTime, btnDisabled,
                              loadingShown, errorShown,
                              sentimentShown, actionShown, log>>
          ELSE BeginAnalysis_part000(started + 1, FALSE, reviews)
    /\ UNCHANGED <<variant, reviews, loadPending, sentimentPipeline, apiToken,
                   USE_MOCK_API, pendingPosts, selVars, ruleVars, simVars>>

\* unnamed/part_000:109-111: the awaited loadReviews of invocation e settles
ReloadSettles_part000(e) ==
    /\ variant = "part000"
    /\ ev[e].pc = "reloading"
    /\ \E ok \in BOOLEAN, rs \in ReviewLists :
          IF ok /\ rs # <<>>
             THEN /\ reviews' = rs
                  /\ BeginAnalysis_part000(e, TRUE, rs)
             ELSE /\ reviews' = IF ok THEN rs ELSE reviews
                  /\ errorShown' = TRUE
                  /\ ev' = [ev EXCEPT ![e] =
                              [ev[e] EXCEPT !.pc = "done", !.error = TRUE,
                                            !.outcome = "noReviews",
                                            !.btnAtEnd = btnDisabled,
                                            !.loadingAtEnd = loadingShown]]
                  /\ UNCHANGED <<reviewShown, startTime, btnDisabled,
                                 loadingShown, sentimentShown,
                                 actionShown, log>>
    /\ UNCHANGED <<variant, loadPending, sentimentPipeline, apiToken,
                   USE_MOCK_API, pendingPosts, started, selVars, ruleVars,
                   simVars>>

\* Task3/app.js:305-318: the classifier call of invocation e settles
ClassifierSettles_Task3_277(e) ==
    /\ variant = "Task3_277"
    /\ ev[e].pc = "classifying"
    /\ \E out \in Outputs :
          IF analyzeSentiment_throws(out)
             THEN /\ ev' = [ev EXCEPT ![e] = Failed(e, out)]
                  /\ errorShown' = TRUE
                  /\ loadingShown' = FALSE
                  /\ btnDisabled' = FALSE
                  /\ UNCHANGED <<sentimentShown, actionShown, log>>
             ELSE LET sentimentData == extractSentimentData(out)
                      businessAction ==
                          executeRules(
                              sentimentRecord(sentimentData.label,
                                              sentimentData.score),
                              businessRules).value
                  IN  /\ ev' = [ev EXCEPT ![e] =
                                  Logging(e, out, sentimentData,
                                          businessAction)]
                      /\ sentimentShown' = sentimentData
                      /\ actionShown' = businessAction
                      /\ log' = Append(log, Payload(e, ev[e].review,
                                                    sentimentData,
                                                    businessAction))
                      /\ UNCHANGED <<errorShown, loadingShown, btnDisabled>>
    /\ UNCHANGED <<variant, reviewShown, startTime, reviews, loadPending,
                   sentimentPipeline, apiToken,
                   USE_MOCK_API, pendingPosts, started, selVars, ruleVars,
                   simVars>>

\* Task2/app.js:168-187: the classifier call of invocation e settles
ClassifierSettles_Task2_144(e) ==
    /\ variant = "Task2_144"
    /\ ev[e].pc = "classifying"
    /\ \E out \in Outputs :
          IF analyzeSentiment_throws(out)
             THEN /\ ev' = [ev EXCEPT ![e] = Failed(e, out)]
                  /\ errorShown' = TRUE
                  /\ UNCHANGED <<sentimentShown, log, pendingPosts>>
             ELSE LET sentimentData == extractSentimentData(out) IN
                  /\ ev' = [ev EXCEPT ![e] =
                              Succeeded(Logging(e, out, sentimentData, ""))]
                  /\ sentimentShown' = displaySentiment_Task2_291(out)
                  /\ log' = Append(log, Payload(e, ev[e].review,
                                                sentimentData, ""))
                  /\ pendingPosts' = pendingPosts + 1
                  /\ UNCHANGED errorShown
    /\ loadingShown' = FALSE
    /\ btnDisabled' = FALSE
    /\ UNCHANGED <<variant, reviewShown, startTime, reviews, loadPending,
                   sentimentPipeline, apiToken,
                   USE_MOCK_API, actionShown, started, selVars, ruleVars,
                   simVars>>

\* Task2/app.js:450-459: the classifier call of invocation e settles
ClassifierSettles_Task2_430(e) ==
    /\ variant = "Task2_430"
    /\ ev[e].pc = "classifying"
    /\ \E out \in Outputs :
          LET shown == IF out.shape = "reject" THEN Threw
                       ELSE displaySentiment_Task2_541(out) IN
          IF shown.threw
             THEN /\ ev' = [ev EXCEPT ![e] = Failed(e, out)]
                  /\ errorShown' = TRUE
                  /\ UNCHANGED sentimentShown
             ELSE /\ ev' = [ev EXCEPT ![e] =
                              Succeeded([ev[e] EXCEPT
                                            !.out = out,
                                            !.sentiment = shown.value])]
                  /\ sentimentShown' = shown.value
                  /\ UNCHANGED errorShown
    /\ loadingShown' = FALSE
    /\ btnDisabled' = FALSE
    /\ UNCHANGED <<variant, reviewShown, startTime, reviews, loadPending,
                   sentimentPipeline, apiToken,
                   USE_MOCK_API, actionShown, log, pendingPosts, started,
                   selVars, ruleVars, simVars>>

\* unnamed/part_000:139-152: the API call of invocation e settles
ClassifierSettles_part000(e) ==
    /\ variant = "part000"
    /\ ev[e].pc = "classifying"
    /\ \E out \in Outputs :
          LET parsedResult == IF out.shape = "reject" THEN Threw
                              ELSE parseSentimentResult(out) IN
          IF parsedResult.threw
             THEN /\ ev' = [ev EXCEPT ![e] = Failed(e, out)]
                  /\ errorShown' = TRUE
                  /\ loadingShown' = FALSE
                  /\ btnDisabled' = FALSE
                  /\ UNCHANGED <<sentimentShown, actionShown, log>>
             ELSE LET sentimentResult == parsedResult.value
                      actionData == determineBusinessAction_part000(
                                        [label |-> sentimentResult.label,
                                         score |-> sentimentResult.score])
                  IN  /\ ev' = [ev EXCEPT ![e] =
                                  Logging(e, out, sentimentResult,
                                          actionData.action)]
                      /\ sentimentShown' = sentimentResult
                      /\ actionShown' = actionData.action
                      /\ log' = Append(log,
                                       logData_part000(e, ev[e].review,
                                                       sentimentResult,
                                                       actionData.action,
                                                       startTime))
                      /\ UNCHANGED <<errorShown, loadingShown, btnDisabled>>
    /\ UNCHANGED <<variant, reviewShown, startTime, reviews, loadPending,
                   sentimentPipeline, apiToken,
                   USE_MOCK_API, pendingPosts, started, selVars, ruleVars,
                   simVars>>

\* Task3/app.js:885-905: the classifier call of invocation e settles
ClassifierSettles_Task3_859(e) ==
    /\ variant = "Task3_859"
    /\ ev[e].pc = "classifying"
    /\ \E out \in Outputs :
          IF analyzeSentiment_throws(out)
             THEN /\ ev' = [ev EXCEPT ![e] = Failed(e, out)]
                  /\ errorShown' = TRUE
                  /\ UNCHANGED <<sentimentShown, actionShown, log,
                                 pendingPosts>>
             ELSE LET shown == displaySentiment_Task3_1017(out)
                      sentimentData == extractSentimentData_Task3_912(out)
                  IN  /\ ev' = [ev EXCEPT ![e] =
                                  Succeeded(Logging(
                                      e, out, shown.sentiment,
                                      shown.actionData.actionCode))]
                      /\ sentimentShown' = shown.sentiment
                      /\ actionShown' = shown.actionData.actionCode
                      /\ log' = Append(log,
                                       payload_Task3_961(e, ev[e].review,
                                                         sentimentData))
                      /\ pendingPosts' = pendingPosts + 1
                      /\ UNCHANGED errorShown
    /\ loadingShown' = FALSE
    /\ btnDisabled' = FALSE
    /\ UNCHANGED <<variant, reviewShown, startTime, reviews, loadPending,
                   sentimentPipeline, apiToken,
                   USE_MOCK_API, started, selVars, ruleVars, simVars>>

\* Task2/app.js:826-838: the classifier call of invocation e settles
ClassifierSettles_Task2_812(e) ==
    /\ variant = "Task2_812"
    /\ ev[e].pc = "classifying"
    /\ \E out \in Outputs :
          LET shown == IF out.shape = "reject" THEN Threw
                       ELSE displaySentiment_Task2_846(out) IN
          IF shown.threw
             THEN /\ ev' = [ev EXCEPT ![e] = Failed(e, out)]
                  /\ errorShown' = TRUE
                  /\ UNCHANGED <<sentimentShown, log, pendingPosts>>
             ELSE /\ ev' = [ev EXCEPT ![e] =
                              Succeeded(Logging(e, out, shown.value, ""))]
                  /\ sentimentShown' = shown.value
                  /\ log' = Append(log,
                                   payload_Task2_879(e, ev[e].review,
                                                     shown.value))
                  /\ pendingPosts' = pendingPosts + 1
                  /\ UNCHANGED errorShown
    /\ loadingShown' = FALSE
    /\ btnDisabled' = FALSE
    /\ UNCHANGED <<variant, reviewShown, startTime, reviews, loadPending,
                   sentimentPipeline, apiToken,
                   USE_MOCK_API, actionShown, started, selVars, ruleVars,
                   simVars>>

\* Task2/app.js:1077-1096: the API call of invocation e settles
ClassifierSettles_Task2_1050(e) ==
    /\ variant = "Task2_1050"
    /\ ev[e].pc = "classifying"
    /\ \E out \in Outputs :
          LET shown == IF out.shape = "reject" THEN Threw
                       ELSE displaySentiment_Task2_1126(out) IN
          IF shown.threw
             THEN /\ ev' = [ev EXCEPT ![e] = Failed(e, out)]
                  /\ errorShown' = TRUE
                  /\ UNCHANGED <<sentimentShown, actionShown, log,
                                 pendingPosts>>
             ELSE LET sentimentData == shown.value
                      decided  == determineBusinessAction_Task2_1008(
                                      sentimentData.score,
                                      sentimentData.label)
                  IN  /\ ev' = [ev EXCEPT ![e] =
                                  Succeeded(Logging(e, out, sentimentData,
                                                    decided.actionCode))]
                      /\ sentimentShown' = sentimentData
                      /\ actionShown' = decided.actionCode
                      /\ log' = Append(log,
                                       logData_Task2_1226(e, ev[e].review,
                                                          sentimentData,
                                                          decided))
                      /\ pendingPosts' = pendingPosts + 1
                      /\ UNCHANGED errorShown
    /\ loadingShown' = FALSE
    /\ btnDisabled' = FALSE
    /\ UNCHANGED <<variant, reviewShown, startTime, reviews, loadPending,
                   sentimentPipeline, apiToken,
                   USE_MOCK_API, started, selVars, ruleVars, simVars>>

LogSettles_noFinally(e) ==
    /\ variant \in AwaitsLog
    /\ ev[e].pc = "logging"
    /\ \E outcome \in PostOutcomes :
          ev' = [ev EXCEPT ![e] =
                    [ev[e] EXCEPT
                        !.pc = "done", !.outcome = "ok",
                        !.btnAtEnd = btnDisabled,
                        !.loadingAtEnd = loadingShown,
                        !.post = logToGoogleSheets(variant, outcome).console]]
    /\ UNCHANGED <<variant, reviewShown, startTime, reviews, loadPending,
                   sentimentPipeline, apiToken, USE_MOCK_API, btnDisabled,
                   loadingShown, errorShown, sentimentShown, actionShown,
                   log, pendingPosts, started, selVars, ruleVars, simVars>>

\* Task3/app.js:313-320 and unnamed/part_000:147-169: the log POST of
\* invocation e ends, the awaited logToGoogleSheets settles, and the catch
\* block (had it rejected) and the finally block run
LogSettles(e) ==
    /\ variant \in AwaitsLog
    /\ ev[e].pc = "logging"
    /\ \E outcome \in PostOutcomes :
          LET settled == logToGoogleSheets(variant, outcome) IN
          IF settled.settled = "resolved"
             THEN /\ ev' = [ev EXCEPT ![e] =
                              Succeeded([ev[e] EXCEPT
                                            !.post = settled.console])]
                  /\ UNCHANGED errorShown
             ELSE /\ ev' = [ev EXCEPT ![e] =
                              [ev[e] EXCEPT !.pc = "done", !.error = TRUE,
                                            !.outcome = "failed",
                                            !.btnAtEnd = FALSE,
                                            !.loadingAtEnd = FALSE,
                                            !.post = settled.console]]
                  /\ errorShown' = TRUE
    /\ loadingShown' = FALSE
    /\ btnDisabled' = FALSE
    /\ UNCHANGED <<variant, reviewShown, startTime, reviews, loadPending,
                   sentimentPipeline, apiToken,
                   USE_MOCK_API, sentimentShown, actionShown, log,
                   pendingPosts, started, selVars, ruleVars, simVars>>

\* the log POST of invocation e, which no invocation waits for, ends; nothing
\* handles the promise of logToGoogleSheets, however it settles
PostSettles(e) ==
    /\ variant \notin AwaitsLog
    /\ ev[e].post = "pending"
    /\ pendingPosts > 0
    /\ \E outcome \in PostOutcomes :
          ev' = [ev EXCEPT ![e].post =
                    logToGoogleSheets(variant, outcome).console]
    /\ pendingPosts' = pendingPosts - 1
    /\ UNCHANGED <<variant, reviewShown, startTime, reviews, loadPending,
                   sentimentPipeline, apiToken,
                   USE_MOCK_API, btnDisabled, loadingShown, errorShown,
                   sentimentShown, actionShown, log, started, selVars,
                   ruleVars, simVars>>

\* Task3/app.js:501: the timer of showError hides the error message
ErrorTimeout ==
    /\ variant = "Task3_277"
    /\ errorShown
    /\ errorShown' = FALSE
    /\ UNCHANGED <<variant, reviewShown, startTime, reviews, loadPending,
                   sentimentPipeline, apiToken,
                   USE_MOCK_API, btnDisabled, loadingShown, sentimentShown,
                   actionShown, log, pendingPosts, ev, started, selVars,
                   ruleVars, simVars>>

\* unnamed/part_000:95 handleTokenInput: a token is stored and the page
\* reloaded, which begins a new page session and abandons the invocations in
\* flight; an empty input clears the token
HandleTokenInput ==
    /\ variant = "part000"
    /\ listening
    /\ \E token \in {"", "token"} :
          IF token # ""
             THEN /\ apiToken' = token
                  /\ USE_MOCK_API' = FALSE
                  /\ reviews' = <<>>
                  /\ loadPending' = TRUE
                  /\ btnDisabled' = FALSE
                  /\ loadingShown' = FALSE
                  /\ errorShown' = FALSE
                  /\ sentimentShown' = NoSentiment
                  /\ actionShown' = ""
                  /\ reviewShown' = 0
                  /\ startTime' = 0
                  /\ ev' = [e \in EventIds |->
                              IF ev[e].pc \in {"idle", "done"} THEN ev[e]
                              ELSE [ev[e] EXCEPT !.pc = "abandoned"]]
             ELSE /\ apiToken' = ""
                  /\ UNCHANGED <<USE_MOCK_API, reviews, loadPending,
                                 reviewShown, startTime,
                                 btnDisabled, loadingShown, errorShown,
                                 sentimentShown, actionShown, ev>>
    /\ UNCHANGED <<variant, sentimentPipeline, log, pendingPosts, started,
                   selVars, ruleVars, simVars>>

-----------------------------------------------------------------------------
(* Task3/app.js: the instruction field and runSimulation *)

\* the user leaves another text in the instruction field; no listener of the
\* page hears of it.  An edit made before the start-up handler reaches line
\* 89 is overwritten there, so edits count from then on
EditInstruction ==
    /\ variant = "Task3_277"
    /\ listening
    /\ started + acts < MaxEvents
    /\ \E text \in InstructionEdits \ {instruction} : instruction' = text
    /\ parsed' = FALSE
    /\ acts' = acts + 1
    /\ UNCHANGED <<businessRules, data, ruleResult, mockData, outTable, kpi,
                   simStatus, pendingRenders, scoreCall, selVars, appVars>>

\* Task3/app.js:510-585 runSimulation up to await renderMermaid
RunSimulation ==
    /\ variant = "Task3_277"
    /\ listening
    /\ started + acts < MaxEvents
    /\ acts' = acts + 1
    /\ LET rules == parseRules(instruction) IN
       /\ businessRules' = rules
       /\ parsed' = TRUE
       /\ \E generated \in MockDataSets :
             LET enriched == [i \in 1..MaxRows |->
                                 enrich(generated[i], rules)] IN
             /\ mockData' = generated
             /\ IF \E i \in 1..MaxRows : enriched[i].threw
                   THEN /\ simStatus' = "error"
                        /\ UNCHANGED <<outTable, kpi, pendingRenders>>
                   ELSE /\ outTable' = enriched
                        /\ kpi' = kpiOf(enriched)
                        /\ simStatus' = "simulating"
                        /\ pendingRenders' = pendingRenders + 1
    /\ UNCHANGED <<instruction, data, ruleResult, scoreCall, selVars,
                   appVars>>

\* Task3/app.js:585-587: renderMermaid, which catches what mermaid.run
\* throws, settles and runSimulation writes its last status
RenderMermaidSettles ==
    /\ pendingRenders > 0
    /\ pendingRenders' = pendingRenders - 1
    /\ simStatus' = "complete"
    /\ UNCHANGED <<mockData, outTable, kpi, acts, scoreCall, selVars,
                   ruleVars, appVars>>

AppNext ==
    \/ LoadReviewsSettles
    \/ InitSentimentModelSettles
    \/ Click_Task3_277
    \/ Click_Task2_144
    \/ Click_Task2_430
    \/ Click_part000
    \/ Click_Task3_859
    \/ Click_Task2_812
    \/ Click_Task2_1050
    \/ SaveApiToken
    \/ \E e \in EventIds : ReloadSettles_part000(e)
    \/ \E e \in EventIds : ClassifierSettles_Task3_277(e)
    \/ \E e \in EventIds : ClassifierSettles_Task2_144(e)
    \/ \E e \in EventIds : ClassifierSettles_Task2_430(e)
    \/ \E e \in EventIds : ClassifierSettles_part000(e)
    \/ \E e \in EventIds : ClassifierSettles_Task3_859(e)
    \/ \E e \in EventIds : ClassifierSettles_Task2_812(e)
    \/ \E e \in EventIds : ClassifierSettles_Task2_1050(e)
    \/ \E e \in EventIds : LogSettles(e)
    \/ \E e \in EventIds : PostSettles(e)
    \/ ErrorTimeout
    \/ HandleTokenInput
    \/ EditInstruction
    \/ RunSimulation
    \/ RenderMermaidSettles

SpecApp == AppInit /\ [][AppNext]_vars

\* the classifier call of invocation e settles, in whichever variant
ClassifierSettles(e) ==
    \/ ClassifierSettles_Task3_277(e)
    \/ ClassifierSettles_Task2_144(e)
    \/ ClassifierSettles_Task2_430(e)
    \/ ClassifierSettles_part000(e)
    \/ ClassifierSettles_Task3_859(e)
    \/ ClassifierSettles_Task2_812(e)
    \/ ClassifierSettles_Task2_1050(e)

\* a page session in which every pending classifier call and every awaited
\* logging call eventually resolves or rejects.  ClassifierSettles(e) is
\* enabled exactly while invocation e waits for its classifier, and each of
\* its steps ends that wait, so WF_vars(ClassifierSettles(e)) says that e is
\* infinitely often not waiting for its classifier; it is stated in that
\* form
SpecAppFair ==
    /\ SpecApp
    /\ \A e \in EventIds : []<>(ev[e].pc # "classifying")
    /\ \A e \in EventIds : WF_vars(LogSettles(e))

-----------------------------------------------------------------------------
(* The simulation on every instruction text *)

\* the page of Task3/app.js:277 once its start-up handler has attached the
\* listeners, with any text in the instruction field
SimInit ==
    /\ SelIdle
    /\ variant = "Task3_277"
    /\ instruction \in InstructionEdits
    /\ businessRules = parseRules(DEFAULT_INSTRUCTION)
    /\ parsed = (instruction = DEFAULT_INSTRUCTION)
    /\ data = sentimentRecord("NEUTRAL", 50)
    /\ ruleResult = NoResult
    /\ reviews = <<>>
    /\ loadPending = FALSE
    /\ sentimentPipeline = "ready"
    /\ apiToken = ""
    /\ USE_MOCK_API = FALSE
    /\ btnDisabled = FALSE
    /\ loadingShown = FALSE
    /\ errorShown = FALSE
    /\ sentimentShown = NoSentiment
    /\ actionShown = ""
    /\ log = <<>>
    /\ pendingPosts = 0
    /\ ev = [e \in EventIds |-> NoEvent]
    /\ started = 0
    /\ reviewShown = 0
    /\ startTime = 0
    /\ SimIdle

SimNext ==
    \/ EditInstruction
    \/ RunSimulation
    \/ RenderMermaidSettles

SpecSim == SimInit /\ [][SimNext]_vars

-----------------------------------------------------------------------------
(* Analyses and simulations of one page of Task3/app.js:277 *)

\* the page once its start-up handler has loaded the reviews and the model
\* and attached the listeners, with any text in the instruction field
Task3Init ==
    /\ SelIdle
    /\ SimIdle
    /\ variant = "Task3_277"
    /\ instruction \in InstructionEdits
    /\ businessRules = parseRules(DEFAULT_INSTRUCTION)
    /\ parsed = (instruction = DEFAULT_INSTRUCTION)
    /\ data = sentimentRecord("NEUTRAL", 50)
    /\ ruleResult = NoResult
    /\ reviews \in ReviewLists \ {<<>>}
    /\ loadPending = FALSE
    /\ sentimentPipeline = "ready"
    /\ apiToken = ""
    /\ USE_MOCK_API = FALSE
    /\ btnDisabled = FALSE
    /\ loadingShown = FALSE
    /\ errorShown = FALSE
    /\ sentimentShown = NoSentiment
    /\ actionShown = ""
    /\ log = <<>>
    /\ pendingPosts = 0
    /\ ev = [e \in EventIds |-> NoEvent]
    /\ started = 0
    /\ reviewShown = 0
    /\ startTime = 0

Task3Next ==
    \/ Click_Task3_277
    \/ \E e \in EventIds : ClassifierSettles_Task3_277(e)
    \/ \E e \in EventIds : LogSettles(e)
    \/ ErrorTimeout
    \/ EditInstruction
    \/ RunSimulation
    \/ RenderMermaidSettles

SpecTask3 == Task3Init /\ [][Task3Next]_vars

-----------------------------------------------------------------------------
(* The policy score arithmetic on every coverage and cost *)

ScoreInit ==
    /\ SelIdle
    /\ RuleIdle
    /\ AppIdle
    /\ mockData = <<>>
    /\ outTable = <<>>
    /\ kpi = NoKpi
    /\ simStatus = ""
    /\ pendingRenders = 0
    /\ acts = 0
    /\ \E h \in 0..MaxHighRisk, c \in 0..MaxHighRisk, t \in CostSamples :
          /\ c <= h
          /\ scoreCall = [covered |-> c, highRisk |-> h, totalCost |-> t,
                          called |-> FALSE, finalScore |-> 0]

Call_finalScore ==
    /\ ~scoreCall.called
    /\ scoreCall' = [scoreCall EXCEPT
                        !.called = TRUE,
                        !.finalScore = finalScore(scoreCall.covered,
                                                  scoreCall.highRisk,
                                                  scoreCall.totalCost)]
    /\ UNCHANGED <<mockData, outTable, kpi, simStatus, pendingRenders, acts,
                   selVars, ruleVars, appVars>>

ScoreNext == Call_finalScore

SpecScore == ScoreInit /\ [][ScoreNext]_vars

-----------------------------------------------------------------------------
(* Claims about the selectors (SpecSelect) *)

Recognized == {"POSITIVE", "NEGATIVE", "NEUTRAL"}

ThreeBucketSelectors ==
    {"determineBusinessAction_Task2_495",
     "determineBusinessAction_Task2_1008",
     "determineBusinessAction_Task3_802"}

\* the positivity index of the current arguments, as the specification
\* defines it
PositivityIndex ==
    IF label = "POSITIVE" THEN score
    ELSE IF label = "NEGATIVE" THEN 100 - score
    ELSE 50

\* C3: for every label and confidence c the normalizer gives c for POSITIVE,
\* 1 - c for NEGATIVE and 0.5 for any other label, in getNormalizedScore and
\* in the normalization step of each determineBusinessAction
C3_Normalizer ==
    /\ applied = "getNormalizedScore" => decision = PositivityIndex
    /\ applied = "determineBusinessAction_Task3_802"
          => decision.normalizedScore = PositivityIndex
    /\ normalizedScore_Task2_495(score, label) = PositivityIndex
    /\ normalizedScore_Task2_1008(score, label) = PositivityIndex
    /\ normalizedScore_Task3_802(score, label) = PositivityIndex

C3_Witness ==
    /\ applied = "getNormalizedScore"
    /\ label = "NEGATIVE"
    /\ score = 85
    /\ decision = 15

\* C4: in the 3-bucket scheme the action code is OFFER_COUPON iff the index
\* is <= 0.4, ASK_REFERRAL iff it is >= 0.7 and REQUEST_FEEDBACK otherwise
C4_ThreeBuckets ==
    applied \in ThreeBucketSelectors =>
        /\ decision.actionCode
              \in {"OFFER_COUPON", "REQUEST_FEEDBACK", "ASK_REFERRAL"}
        /\ decision.actionCode = "OFFER_COUPON" <=> PositivityIndex <= 40
        /\ decision.actionCode = "ASK_REFERRAL" <=> PositivityIndex >= 70
        /\ decision.actionCode = "REQUEST_FEEDBACK"
              <=> (40 < PositivityIndex /\ PositivityIndex < 70)

C4_Witness ==
    /\ applied = "determineBusinessAction_Task2_1008"
    /\ label = "POSITIVE"
    /\ score = 40
    /\ decision.actionCode = "OFFER_COUPON"

\* C5: the 5-bucket scheme gives OFFER_COUPON for NEGATIVE above 0.7,
\* FLAG_FOR_REVIEW for NEGATIVE up to 0.7, THANK_CUSTOMER for POSITIVE above
\* 0.7 and NO_ACTION otherwise, and the decision carries the input score
C5_FiveBuckets ==
    applied = "determineBusinessAction_part000" =>
        /\ decision.score = score
        /\ decision.action =
              (IF label = "NEGATIVE" /\ score > 70 THEN "OFFER_COUPON"
               ELSE IF label = "NEGATIVE" THEN "FLAG_FOR_REVIEW"
               ELSE IF label = "POSITIVE" /\ score > 70 THEN "THANK_CUSTOMER"
               ELSE "NO_ACTION")

C5_Witness ==
    /\ applied = "determineBusinessAction_part000"
    /\ label = "NEGATIVE"
    /\ score = 70
    /\ decision.action = "FLAG_FOR_REVIEW"

\* the action code of the last selector call
DecidedCode ==
    IF applied = "determineBusinessAction_part000" THEN decision.action
    ELSE IF applied = "getActionCode" THEN decision
    ELSE decision.actionCode

\* C6 as claimed: in every selector an unrecognized label gives NO_ACTION
C6_UnrecognizedIsNoAction ==
    (/\ applied \in ThreeBucketSelectors
                      \cup {"determineBusinessAction_part000", "getActionCode"}
     /\ label \notin Recognized)
        => DecidedCode = "NO_ACTION"

\* C6 as amended: an unrecognized label gives the default of the variant:
\* NO_ACTION in the 5-bucket selector, REQUEST_FEEDBACK (index 0.5) in the
\* 3-bucket determineBusinessAction, and in getActionCode the 3-bucket code
\* of the confidence itself
C6_UnrecognizedDefault ==
    label \notin Recognized =>
        /\ applied = "determineBusinessAction_part000"
              => decision.action = "NO_ACTION"
        /\ applied \in ThreeBucketSelectors
              => decision.actionCode = "REQUEST_FEEDBACK"
        /\ applied = "getActionCode"
              => decision = (IF score <= 40 THEN "OFFER_COUPON"
                             ELSE IF score < 70 THEN "REQUEST_FEEDBACK"
                             ELSE "ASK_REFERRAL")

C6_Witness ==
    /\ label = "MIXED"
    /\ score = 90
    /\ applied = "determineBusinessAction_Task3_802"
    /\ decision.actionCode = "REQUEST_FEEDBACK"

-----------------------------------------------------------------------------
(* Claims about the rule interpreter (SpecRules) *)

\* rule i of the installed list matches the record: a fallback rule, or a
\* conditional rule whose substituted condition evaluates to a true value
Matches(i) ==
    \/ businessRules[i].type = "fallback"
    \/ /\ businessRules[i].type = "conditional"
       /\ jsEval(substitute(businessRules[i].condition, data)) = "true"

MatchingRules == {i \in 1..Len(businessRules) : Matches(i)}

\* C1 as claimed: on the example rule list executeRules gives EMERGENCY_CALL
\* for NEGATIVE with confidence 0.85, OFFER_COUPON with 0.65 and THANK_ONLY
\* with 0.3
C1_ExampleActions ==
    (/\ instruction = ExampleInstruction
     /\ parsed
     /\ ruleResult.kind # "none"
     /\ data \in {sentimentRecord("NEGATIVE", c) : c \in {85, 65, 30}})
        => /\ ruleResult.kind = "return"
           /\ ruleResult.value =
                 (IF data.confidence = 85 THEN "EMERGENCY_CALL"
                  ELSE IF data.confidence = 65 THEN "OFFER_COUPON"
                  ELSE "THANK_ONLY")

\* C2: executeRules returns the result of the first rule, in declared order,
\* that is a fallback rule or a conditional rule whose condition is true,
\* and NO_ACTION when there is none
C2_FirstMatchWins ==
    ruleResult.kind # "none" =>
        /\ ruleResult.kind = "return"
        /\ \A j \in 1..(Len(ruleResult.evaluated) - 1) :
              ruleResult.evaluated[j] < ruleResult.evaluated[j + 1]
        /\ IF MatchingRules = {}
              THEN ruleResult.value = "NO_ACTION"
              ELSE \E i \in MatchingRules :
                      /\ \A j \in MatchingRules : i <= j
                      /\ ruleResult.value = businessRules[i].result

C2_Witness ==
    /\ ruleResult.kind = "return"
    /\ Len(businessRules) >= 3
    /\ businessRules[1].type = "conditional"
    /\ businessRules[2].type = "conditional"
    /\ MatchingRules # {}
    /\ 1 \notin MatchingRules
    /\ 2 \in MatchingRules
    /\ ruleResult.value = "OFFER_COUPON"

\* C7: a condition that fails to parse or evaluate never makes executeRules
\* throw; the rule is skipped, so an invalid condition followed by a fallback
\* rule gives the fallback's action for every record
C7_InvalidConditionSkipped ==
    ruleResult.kind # "none" =>
        /\ ruleResult.kind # "throw"
        /\ (/\ Len(businessRules) = 2
            /\ businessRules[1].type = "conditional"
            /\ jsEval(substitute(businessRules[1].condition, data)) = "throw"
            /\ businessRules[2].type = "fallback")
              => /\ ruleResult.value = businessRules[2].result
                 /\ ruleResult.evaluated = <<1>>

C7_Witness ==
    /\ ruleResult.kind = "return"
    /\ Len(businessRules) = 2
    /\ businessRules[1].type = "conditional"
    /\ businessRules[1].condition = <<W("confidence"), W(">=")>>
    /\ businessRules[2].type = "fallback"
    /\ ruleResult.value = "THANK_ONLY"

\* the lines of the rule section: after the first [RULES] line and before
\* the next line that starts with "["
RuleSection ==
    LET headers == {i \in 1..Len(instruction) :
                       instruction[i] = <<W("[RULES]")>>} IN
    IF headers = {} THEN {}
    ELSE LET h == CHOOSE i \in headers : \A j \in headers : i <= j IN
         {i \in (h + 1)..Len(instruction) :
             \A j \in (h + 1)..i : ~startsWithBracket(instruction[j])}

\* the lines of the rule section that state a rule
RuleLines ==
    {i \in RuleSection :
        /\ instruction[i] # <<>>
        /\ ~startsWithSlashes(instruction[i])
        /\ ifMatch(instruction[i]) \/ returnMatch(instruction[i])}

\* C8: parseRules gives one rule per IF or RETURN line of the rule section,
\* in the order of the lines, nothing for blank and comment lines, and the
\* empty list when the text has no [RULES] line
C8_ParseRules ==
    parsed =>
        /\ Len(businessRules) = Cardinality(RuleLines)
        /\ \A i \in RuleLines :
              LET k    == Cardinality({j \in RuleLines : j <= i})
                  line == instruction[i] IN
              IF ifMatch(line)
                 THEN /\ businessRules[k].type = "conditional"
                      /\ businessRules[k].condition
                            = SubSeq(line, 2, Len(line) - 3)
                      /\ toUpperCase(line[Len(line)].s)
                            = businessRules[k].result
                 ELSE /\ businessRules[k].type = "fallback"
                      /\ toUpperCase(line[2].s) = businessRules[k].result

C8_Witness ==
    /\ parsed
    /\ instruction = DEFAULT_INSTRUCTION
    /\ Len(businessRules) = 6
    /\ businessRules[5].condition = <<W("confidence"), W("<"), N(60)>>
    /\ businessRules[6] = [type |-> "fallback", result |-> "THANK_ONLY"]

-----------------------------------------------------------------------------
(* Claims about the analysis events (SpecApp) *)

\* the classifier output has the form the variant reads a sentiment from: a
\* non-empty array (nested once more in the remote-API variants of Task2)
\* whose first element has a string label and a numeric score
WellFormed(out) ==
    /\ out.shape = (IF variant \in NestedReaders THEN "nested" ELSE "flat")
    /\ out.elem = "object"
    /\ out.labelT = "string"
    /\ out.scoreT = "number"

\* invocation e has gone past its classifier call, which failed or gave a
\* malformed result
ClassifierFailed(e) ==
    /\ ev[e].pc \in {"logging", "done"}
    /\ ev[e].out # NoOutput
    /\ ~WellFormed(ev[e].out)

\* C9 as claimed: when the classifier fails or returns a malformed result,
\* the event ends in an error shown to the user and no sentiment is
\* displayed, decided on or logged
C9_ClassifierFailureIsError ==
    \A e \in EventIds :
        ClassifierFailed(e) =>
            /\ ev[e].error
            /\ ev[e].sentiment = NoSentiment
            /\ ev[e].action = ""
            /\ ~ev[e].logged

\* invocation e began with an empty review list and ended without a review
\* (in the variant that retries loading, the reload failed too)
EndedWithoutReviews(e) ==
    /\ ev[e].pc = "done"
    /\ ev[e].emptyAtStart
    /\ ev[e].review = 0

\* C10: an invocation that finds no review ends as an error: the error
\* message is shown, the classifier is not called, nothing is logged, and
\* the button is enabled and the loading indicator hidden when it ends
C10_EmptyReviewsIsError ==
    \A e \in EventIds :
        EndedWithoutReviews(e) =>
            /\ ev[e].error
            /\ ev[e].outcome = "noReviews"
            /\ ~ev[e].called
            /\ ~ev[e].logged
            /\ \A i \in 1..Len(log) : log[i].event # e
            /\ ~ev[e].btnAtEnd
            /\ ~ev[e].loadingAtEnd

\* invocation e ends in this step without ever having had a review
EndsWithoutReviews(e) ==
    /\ ev[e].pc # "done"
    /\ ev'[e].pc = "done"
    /\ ev'[e].emptyAtStart
    /\ ev'[e].review = 0

\* C10 as amended: an invocation that finds no review ends as an error: the
\* error message is shown, the classifier is not called, nothing is logged
\* and the invocation leaves the button and the loading indicator as they
\* are; the button is enabled and the indicator hidden unless, in the
\* variant that retries loading, another invocation is in flight when the
\* reload fails
C10_EmptyReviewsLeavesControls ==
    [][\A e \in EventIds :
          /\ EndsWithoutReviews(e) =>
                /\ errorShown'
                /\ ev'[e].error
                /\ ev'[e].outcome = "noReviews"
                /\ ~ev'[e].called
                /\ ~ev'[e].logged
                /\ log' = log
                /\ btnDisabled' = btnDisabled
                /\ loadingShown' = loadingShown
                /\ (btnDisabled' \/ loadingShown') =>
                      /\ variant = "part000"
                      /\ \E f \in EventIds \ {e} :
                            ev[f].pc \in {"classifying", "logging"}
          /\ (ev[e].pc = "idle" /\ ev'[e].pc = "reloading") =>
                /\ ~ev'[e].called
                /\ log' = log
                /\ btnDisabled' = btnDisabled
                /\ loadingShown' = loadingShown
      ]_vars

C10_Witness ==
    \E e \in EventIds :
        /\ EndedWithoutReviews(e)
        /\ ev[e].outcome = "noReviews"
        /\ ev[e].error
        /\ errorShown
        /\ ~btnDisabled
        /\ ~loadingShown
        /\ log = <<>>

-----------------------------------------------------------------------------
(* Claims about logging (SpecApp) *)

\* the log POST of invocation e ends in this step
PostEnds(e) ==
    /\ ev[e].post = "pending"
    /\ ev[e].pc \in {"logging", "done"}
    /\ ev'[e].post \in {"logged", "warned"}

\* C11: a failure of the log call never propagates: however the log POST of
\* an invocation ends, the invocation ends as a success with its sentiment
\* (and action) displayed, the step shows no error and changes nothing on
\* display, and where the invocation waited for the POST the button is
\* re-enabled and the loading indicator hidden
C11_LogFailureSwallowed ==
    [][\A e \in EventIds :
          PostEnds(e) =>
              /\ ev'[e].pc = "done"
              /\ ev'[e].outcome = "ok"
              /\ ~ev'[e].error
              /\ ev'[e].sentiment = ev[e].sentiment
              /\ ev'[e].sentiment # NoSentiment
              /\ ev'[e].action = ev[e].action
              /\ errorShown' = errorShown
              /\ sentimentShown' = sentimentShown
              /\ actionShown' = actionShown
              /\ IF variant \in AwaitsLog
                    THEN ~btnDisabled' /\ ~loadingShown'
                    ELSE /\ btnDisabled' = btnDisabled
                         /\ loadingShown' = loadingShown
      ]_vars

C11_Witness ==
    \E e \in EventIds :
        /\ variant = "Task3_277"
        /\ ev[e].post = "warned"
        /\ ev[e].pc = "done"
        /\ ev[e].outcome = "ok"
        /\ sentimentShown = ev[e].sentiment
        /\ actionShown = ev[e].action
        /\ actionShown # ""
        /\ ~errorShown
        /\ ~btnDisabled
        /\ ~loadingShown

\* C12: logging is fire-and-forget in every variant: while the log POST of
\* an invocation is pending the invocation has already completed, with the
\* loading indicator hidden and the button re-enabled
C12_LoggingFireAndForget ==
    \A e \in EventIds :
        ev[e].post = "pending" =>
            /\ ev[e].pc = "done"
            /\ ~ev[e].btnAtEnd
            /\ ~ev[e].loadingAtEnd

-----------------------------------------------------------------------------
(* Claims about the action decision of an event (SpecApp) *)

\* the action codes the specification lists
ClosedSet ==
    {"OFFER_COUPON", "FLAG_FOR_REVIEW", "THANK_CUSTOMER", "NO_ACTION",
     "EMERGENCY_CALL", "SUGGEST_UPGRADE", "THANK_AND_CROSSSELL",
     "HUMAN_REVIEW", "REQUEST_FEEDBACK", "ASK_REFERRAL"}

\* the codes displayed for an event, sent to the log and written to the
\* table of a simulation
CodesProduced ==
    {ev[e].action : e \in EventIds}
        \cup {log[i].action_taken : i \in 1..Len(log)}
        \cup {outTable[i].action : i \in 1..Len(outTable)}

\* C13 as claimed: every action code any variant produces for an analysis or
\* a simulation event belongs to the closed set of ten codes
C13_ClosedActionSet == CodesProduced \ {""} \subseteq ClosedSet

\* the codes the rule list rules allows: NO_ACTION and the code of each rule;
\* for the rules of the default text, the closed set and THANK_ONLY
AllowedByRules(rules) ==
    IF rules = parseRules(DEFAULT_INSTRUCTION)
       THEN ClosedSet \cup {"THANK_ONLY"}
       ELSE {"NO_ACTION"} \cup {rules[i].result : i \in 1..Len(rules)}

\* C13 as amended: a code produced by a selector is in the closed set; a code
\* produced by the rule interpreter is NO_ACTION or the code of one of the
\* parsed rules, which for the default rule text is in the closed set or is
\* THANK_ONLY
C13_ActionCodes ==
    [][/\ \A e \in EventIds :
             ev'[e].action # ev[e].action =>
                 ev'[e].action \in
                     IF variant = "Task3_277" THEN AllowedByRules(businessRules)
                     ELSE ClosedSet
       /\ Len(log') > Len(log) =>
             log'[Len(log')].action_taken \in
                 IF variant = "Task3_277" THEN AllowedByRules(businessRules)
                 ELSE ClosedSet \cup {""}
       /\ outTable' # outTable =>
             \A i \in 1..Len(outTable') :
                 outTable'[i].action \in AllowedByRules(businessRules')
      ]_vars

C13_Witness ==
    \E e \in EventIds :
        /\ variant = "Task3_277"
        /\ businessRules = parseRules(DEFAULT_INSTRUCTION)
        /\ ev[e].pc = "done"
        /\ ev[e].action = "THANK_ONLY"
        /\ actionShown = "THANK_ONLY"
        /\ \E i \in 1..Len(log) :
              log[i].event = e /\ log[i].action_taken = "THANK_ONLY"

\* the payloads sent to the log for invocation e
PayloadsOf(e) == {i \in 1..Len(log) : log[i].event = e}

\* invocation e went past its classification
Classified(e) ==
    \/ ev[e].pc = "logging"
    \/ ev[e].pc = "done" /\ ev[e].outcome = "ok"

\* C14 as claimed: an event whose classification succeeds has exactly one
\* action decision, displayed and logged with the same code; an event whose
\* classification fails has none, displayed or logged
C14_OneDecisionPerEvent ==
    \A e \in EventIds :
        /\ Classified(e) =>
              /\ ev[e].action # ""
              /\ Cardinality(PayloadsOf(e)) = 1
              /\ \A i \in PayloadsOf(e) : log[i].action_taken = ev[e].action
        /\ ev[e].error =>
              /\ ev[e].action = ""
              /\ PayloadsOf(e) = {}

\* the variants that display an action decision
DecisionVariants == {"Task3_277", "Task3_859", "Task2_1050", "part000"}

\* C14 as amended: in the variants that display an action decision, an event
\* whose classification the variant accepts gets exactly one decision: its
\* code is displayed in the step that decides it and that step sends one
\* payload, with the same code, to the log; an event that ends in an error
\* has no decision, the step that ends it displays none and sends nothing
C14_DecisionDisplayedAndLogged ==
    [][\A e \in EventIds :
          variant \in DecisionVariants =>
              /\ (~Classified(e) /\ Classified(e)') =>
                    /\ ev'[e].action # ""
                    /\ actionShown' = ev'[e].action
                    /\ log' = Append(log, log'[Len(log')])
                    /\ log'[Len(log')].event = e
                    /\ log'[Len(log')].action_taken = ev'[e].action
              /\ (Classified(e) /\ ev'[e].pc # "abandoned") =>
                    /\ Classified(e)'
                    /\ ev'[e].action = ev[e].action
                    /\ PayloadsOf(e)' = PayloadsOf(e)
                    /\ Cardinality(PayloadsOf(e)) = 1
              /\ (~ev[e].error /\ ev'[e].error) =>
                    /\ ev'[e].action = ""
                    /\ actionShown' \in {actionShown, ""}
                    /\ log' = log
                    /\ PayloadsOf(e) = {}
      ]_vars

C14_Witness ==
    \E e \in EventIds :
        /\ variant = "Task3_859"
        /\ ev[e].pc = "done"
        /\ ev[e].outcome = "ok"
        /\ ev[e].out.label = "negative"
        /\ ev[e].action = "OFFER_COUPON"
        /\ actionShown = "OFFER_COUPON"
        /\ Cardinality(PayloadsOf(e)) = 1
        /\ \A i \in PayloadsOf(e) : log[i].action_taken = "OFFER_COUPON"
        /\ \E f \in EventIds :
              ev[f].error /\ ev[f].action = "" /\ PayloadsOf(f) = {}

\* the variants that decide by the 3-bucket scheme
ThreeBucketVariants == {"Task3_859", "Task2_812", "Task2_1050"}

\* the positivity index and the 3-bucket selection as the specification
\* defines them
normalize(lbl, confidence) ==
    IF lbl = "POSITIVE" THEN confidence
    ELSE IF lbl = "NEGATIVE" THEN 100 - confidence
    ELSE 50

selectAction3Bucket(index) ==
    IF index <= 40 THEN "OFFER_COUPON"
    ELSE IF index < 70 THEN "REQUEST_FEEDBACK"
    ELSE "ASK_REFERRAL"

\* the classifier of invocation e returned a first result (label, score) in
\* the array form the variant reads, and the invocation went on
FirstResult(e) ==
    /\ Classified(e)
    /\ WellFormed(ev[e].out)

-----------------------------------------------------------------------------
(* Claims about the rule text of a page session (SpecApp) *)

\* C16: the rule text is re-parsed whenever it changes: in every step in
\* which analyzeRandomReview executes the business rules, businessRules is
\* parseRules of the text the instruction field holds
C16_RulesFollowText ==
    [][\A e \in EventIds :
          (/\ variant = "Task3_277"
           /\ ev[e].pc = "classifying"
           /\ ev'[e].pc = "logging")
              => businessRules = parseRules(instruction)
      ]_vars

-----------------------------------------------------------------------------
(* Claims about the batch simulation (SpecSim) *)

\* a simulation has written its table and KPIs
Simulated == simStatus \in {"simulating", "complete"}

\* the generated records whose churn score is at least 0.7, and those of
\* them whose action in the table is not NO_ACTION
HighRiskRecords == {i \in 1..Len(mockData) : mockData[i].churn_score >= 70}

CoveredRecords ==
    {i \in HighRiskRecords : outTable[i].action # "NO_ACTION"}

\* C17: the high-risk set is exactly the records whose churn score is >= 0.7;
\* coverage is the number of high-risk records whose action is not NO_ACTION
\* over the number of high-risk records, 0 when there is none, and always in
\* [0,1]; the coverage KPI shows it as the nearest whole percentage
C17_Coverage ==
    Simulated =>
        LET h == Cardinality(HighRiskRecords)
            c == Cardinality(CoveredRecords)
        IN  /\ Len(outTable) = Len(mockData)
            /\ kpi.highRisk = h
            /\ kpi.highRiskCovered = c
            /\ 0 <= kpi.highRiskCovered
            /\ kpi.highRiskCovered <= kpi.highRisk
            /\ kpi.kpiCoverage \in 0..100
            /\ h = 0 => kpi.kpiCoverage = 0
            /\ h > 0 =>
                  /\ 2 * (100 * c - kpi.kpiCoverage * h) <= h
                  /\ 2 * (kpi.kpiCoverage * h - 100 * c) < h

C17_Witness ==
    /\ Simulated
    /\ Cardinality(HighRiskRecords) = 2
    /\ Cardinality(CoveredRecords) = 1
    /\ \E i \in HighRiskRecords : mockData[i].churn_score = 70
    /\ \E i \in 1..Len(mockData) :
          mockData[i].churn_score < 70 /\ outTable[i].action # "NO_ACTION"
    /\ kpi.kpiCoverage = 50

\* the cost table as claimed
ClaimedCost(action) ==
    IF action = "EMERGENCY_CALL" THEN 100
    ELSE IF action = "OFFER_COUPON" THEN 25
    ELSE IF action = "SUGGEST_UPGRADE" THEN 10
    ELSE IF action = "THANK_AND_CROSSSELL" THEN 5
    ELSE IF action = "HUMAN_REVIEW" THEN 15
    ELSE 0

\* the claimed costs of the first n records of the table, added up
RECURSIVE ClaimedTotal(_)
ClaimedTotal(n) ==
    IF n = 0 THEN 0
    ELSE ClaimedCost(outTable[n].action) + ClaimedTotal(n - 1)

\* C19: the cost of each simulated record is the table value of its action
\* (0 for THANK_ONLY, NO_ACTION and any code not in the table), and the
\* total cost is the sum of the costs of all simulated records
C19_Cost ==
    Simulated =>
        /\ \A i \in 1..Len(outTable) :
              /\ outTable[i].action =
                    executeRules(mockData[i], businessRules).value
              /\ outTable[i].cost = ClaimedCost(outTable[i].action)
        /\ kpi.kpiRows = Len(outTable)
        /\ kpi.totalCost = ClaimedTotal(Len(outTable))

C19_Witness ==
    /\ Simulated
    /\ \E i \in 1..Len(outTable) :
          outTable[i].action = "VIP" /\ outTable[i].cost = 0
    /\ \E i \in 1..Len(outTable) :
          outTable[i].action = "SUGGEST_UPGRADE" /\ outTable[i].cost = 10
    /\ kpi.totalCost = 20

\* C20: the simulator is deterministic: runSimulation takes no seed, so any
\* two runs have the same seed, and a run with the rule list of the run
\* before it writes the same per-record actions and the same KPIs
C20_Deterministic ==
    [][(/\ Simulated
        /\ acts' = acts + 1
        /\ instruction' = instruction
        /\ businessRules' = businessRules
        /\ Simulated')
          => /\ \A i \in 1..Len(outTable) :
                   outTable'[i].action = outTable[i].action
             /\ kpi'.totalCost = kpi.totalCost
             /\ kpi'.kpiCoverage = kpi.kpiCoverage
             /\ kpi'.kpiScore = kpi.kpiScore
      ]_vars

-----------------------------------------------------------------------------
(* Claims about the policy score (SpecScore) *)

\* the claimed score before rounding and clamping,
\*     min(50, coverage / 0.9 * 50) + E - P,
\* in units of 1 / ScoreUnit, for the coverage and the cost of scoreCall
ScoreUnit ==
    3150 * (IF scoreCall.highRisk = 0 THEN 1 ELSE scoreCall.highRisk)

ClaimedRaw ==
    LET unitsPerHighRisk == ScoreUnit \div 9
        safety == IF scoreCall.highRisk = 0 THEN 0
                  ELSE IF 10 * scoreCall.covered >= 9 * scoreCall.highRisk
                     THEN 50 * ScoreUnit
                  ELSE 500 * scoreCall.covered
                           * (unitsPerHighRisk \div scoreCall.highRisk)
        E == IF scoreCall.totalCost <= 3500
                THEN 50 * ScoreUnit
                         - scoreCall.totalCost * (ScoreUnit \div 175)
                ELSE 0
        P == IF scoreCall.totalCost > 3500
                THEN (scoreCall.totalCost - 3500) * (ScoreUnit \div 10)
                ELSE 0
    IN  safety + E - P

\* C18: for every coverage in [0,1] and total cost >= 0 the policy score is
\* max(0, round(min(50, coverage / 0.9 * 50) + E - P)) with the claimed E
\* and P: an integer in 0..100, the nearest integer to the raw score (a half
\* going up) when that is positive and 0 otherwise
C18_PolicyScore ==
    scoreCall.called =>
        LET f == scoreCall.finalScore IN
        /\ f \in 0..100
        /\ f > 0 =>
              /\ 2 * f * ScoreUnit <= 2 * ClaimedRaw + ScoreUnit
              /\ 2 * ClaimedRaw + ScoreUnit < 2 * (f + 1) * ScoreUnit
        /\ f = 0 => 2 * ClaimedRaw + ScoreUnit < 2 * ScoreUnit

C18_Witness ==
    /\ scoreCall.called
    /\ scoreCall.highRisk = 4
    /\ scoreCall.covered = 2
    /\ scoreCall.totalCost = 30000
    /\ ClaimedRaw < 0
    /\ scoreCall.finalScore = 0

-----------------------------------------------------------------------------
(* Claims about the default rule list and its flowchart (SpecRules) *)

\* Task3/app.js:46-63: the action the [MERMAID] flowchart of
\* DEFAULT_INSTRUCTION reaches from Start for a sentiment and a confidence
flowchart(sentiment, confidence) ==
    CASE sentiment = "NEGATIVE" ->
            (IF confidence >= 80 THEN "EMERGENCY_CALL"
             ELSE IF confidence >= 60 THEN "OFFER_COUPON"
             ELSE "HUMAN_REVIEW")
      [] sentiment = "NEUTRAL" ->
            (IF confidence >= 70 THEN "SUGGEST_UPGRADE" ELSE "HUMAN_REVIEW")
      [] sentiment = "POSITIVE" ->
            (IF confidence >= 80 THEN "THANK_AND_CROSSSELL"
             ELSE "THANK_ONLY")

\* C21 as claimed: on the rule list parsed from DEFAULT_INSTRUCTION,
\* executeRules returns for every sentiment and confidence the action the
\* flowchart of the same text reaches
C21_DefaultRulesFollowFlowchart ==
    (/\ instruction = DEFAULT_INSTRUCTION
     /\ parsed
     /\ ruleResult.kind # "none"
     /\ data.sentiment \in Sentiments)
        => /\ ruleResult.kind = "return"
           /\ ruleResult.value = flowchart(data.sentiment, data.confidence)

-----------------------------------------------------------------------------
(* Claims about the duplicated 3-bucket selectors (SpecSelect) *)

\* C22 as claimed: for every label and confidence, getActionCode returns the
\* action code that determineBusinessAction returns (Task2/app.js:1008 and
\* Task3/app.js:802)
C22_SameDecisionLogic ==
    applied = "getActionCode" =>
        /\ decision
              = determineBusinessAction_Task2_1008(score, label).actionCode
        /\ decision
              = determineBusinessAction_Task3_802(score, label).actionCode

-----------------------------------------------------------------------------
(* Claims about the fallback rule (SpecRules) *)

\* the positions of the fallback rules of the installed list
FallbackRules ==
    {i \in 1..Len(businessRules) : businessRules[i].type = "fallback"}

\* C23: a fallback rule always matches and is terminal: executeRules
\* evaluates the condition of no rule positioned after the first fallback
\* rule and returns the result of no such rule; it returns the result of the
\* first fallback rule unless a rule before it matched
C23_FallbackTerminal ==
    (ruleResult.kind # "none" /\ FallbackRules # {}) =>
        LET f == CHOOSE i \in FallbackRules : \A j \in FallbackRules : i <= j
            seen == ruleResult.evaluated
        IN  /\ ruleResult.kind = "return"
            /\ \A j \in 1..Len(seen) : seen[j] < f
            /\ IF \E i \in 1..(f - 1) : Matches(i)
                  THEN /\ seen # <<>>
                       /\ Matches(seen[Len(seen)])
                       /\ ruleResult.value
                             = businessRules[seen[Len(seen)]].result
                  ELSE ruleResult.value = businessRules[f].result

C23_Witness ==
    /\ ruleResult.kind = "return"
    /\ Len(businessRules) = 2
    /\ businessRules[1].type = "fallback"
    /\ businessRules[2].type = "conditional"
    /\ Matches(2)
    /\ businessRules[2].result = "OFFER_COUPON"
    /\ ruleResult.evaluated = <<>>
    /\ ruleResult.value = "THANK_ONLY"

-----------------------------------------------------------------------------
(* Claims about concurrent analyses (SpecApp) *)

\* invocation e is in flight: it began and has not ended
InFlight(e) == ev[e].pc \in {"reloading", "classifying", "logging"}

\* invocation e selects its review in this step
Begins(e) == ev[e].review = 0 /\ ev'[e].review # 0

\* C24: in unnamed/part_000 analyses are not guarded against one another: an
\* invocation that begins takes over the displayed review and the shared
\* startTime whatever other invocations are in flight, and a log payload
\* measures its processing time from the startTime of that moment, which an
\* invocation that began later may have set
C24_SharedStateOverwritten ==
    [][\A e \in EventIds :
          variant = "part000" =>
             /\ Begins(e) => /\ reviewShown' = ev'[e].review
                             /\ startTime' = e
             /\ (Len(log') = Len(log) + 1 /\ log'[Len(log')].event = e)
                   => log'[Len(log')].processingTimeFrom = startTime']_vars

C24_Witness ==
    \E e1, e2 \in EventIds :
        /\ variant = "part000"
        /\ e1 # e2
        /\ ev[e1].pc = "logging"
        /\ ev[e2].pc = "classifying"
        /\ ev[e1].review # ev[e2].review
        /\ reviewShown = ev[e2].review
        /\ startTime = e2
        /\ \E i \in PayloadsOf(e1) : log[i].processingTimeFrom = e2


\* the variants of Task2/app.js and Task3/app.js
TaskVariants ==
    {"Task2_144", "Task2_430", "Task2_812", "Task2_1050", "Task3_277",
     "Task3_859"}

\* the invocations whose classifier call is pending
PendingCalls == {e \in EventIds : ev[e].pc = "classifying"}

\* C25: in the Task2 and Task3 variants, with clicks delivered only while the
\* analyze button is enabled, at most one classifier call is pending at any
\* time, and the button is disabled from the step that starts the call until
\* the call has settled
C25_OnePendingCall ==
    variant \in TaskVariants =>
        /\ Cardinality(PendingCalls) <= 1
        /\ PendingCalls # {} => btnDisabled

C25_Witness ==
    \E e1, e2 \in EventIds :
        /\ variant = "Task2_812"
        /\ ev[e1].pc = "done"
        /\ ev[e1].outcome = "ok"
        /\ ev[e2].pc = "classifying"
        /\ btnDisabled

-----------------------------------------------------------------------------
(* Claims about the end of an analysis (SpecAppFair) *)

\* invocation e disabled the analyze button and waits for its classifier or
\* for the logging call it awaits
HoldsButton(e) == ev[e].pc \in {"classifying", "logging"}

\* invocation e is over, its last step left the button enabled and the
\* loading indicator hidden, and so they are (a page reload, which abandons
\* the invocation, builds the page anew with both in that state)
Released(e) ==
    /\ ev[e].pc \in {"done", "abandoned"}
    /\ ~ev[e].btnAtEnd
    /\ ~ev[e].loadingAtEnd
    /\ ~btnDisabled
    /\ ~loadingShown

\* C26: if every pending classifier call and every awaited logging call
\* eventually settles, every analysis that disabled the analyze button
\* eventually re-enables it and hides the loading indicator, on the success
\* path and on every failure path; the button is not left disabled once no
\* analysis holds it
C26_ButtonReleased ==
    /\ \A e \in EventIds : HoldsButton(e) ~> Released(e)
    /\ []((\A e \in EventIds : ~HoldsButton(e))
             => (~btnDisabled /\ ~loadingShown))

C26_Witness ==
    \E e \in EventIds :
        /\ variant = "Task3_277"
        /\ ev[e].called
        /\ ev[e].pc = "done"
        /\ ev[e].outcome = "failed"
        /\ ev[e].error
        /\ ~ev[e].btnAtEnd
        /\ ~ev[e].loadingAtEnd
        /\ ~btnDisabled
        /\ ~loadingShown

-----------------------------------------------------------------------------
(* Claims about the normalized score of a log payload (SpecApp) *)

\* the variants whose log payload carries a normalized score
ScoreLoggers == {"Task2_812", "Task2_1050", "Task3_859"}

\* the positivity index that selected the action_taken of payload p: the
\* normalized of getActionCode (Task2/app.js:914) and the normalizedScore of
\* determineBusinessAction (Task2/app.js:1010, Task3/app.js:806), -1 where
\* it is no number
IndexUsed(p) ==
    CASE variant = "Task2_812" ->
            (IF p.sentiment.scoreT = "undefined" THEN -1
             ELSE IF p.sentiment.label = "NEGATIVE"
                THEN 100 - p.sentiment.score
             ELSE p.sentiment.score)
      [] variant = "Task2_1050" ->
            normalizedScore_Task2_1008(p.sentiment.score, p.sentiment.label)
      [] variant = "Task3_859" ->
            normalizedScore_Task3_802(p.sentiment.score, p.sentiment.label)

\* C27 as claimed: for every logged event and every label, the normalized
\* score written to the log payload equals the positivity index that
\* selected the action_taken of the same payload
C27_NormalizedScoreIsIndex ==
    variant \in ScoreLoggers =>
        \A i \in 1..Len(log) : log[i].normalized_score = IndexUsed(log[i])

-----------------------------------------------------------------------------
(* Claims about the mock mode of unnamed/part_000 (SpecApp) *)

\* C28 as claimed: after any sequence of token inputs, an analysis that
\* begins takes the mock classifier if and only if apiToken is empty, and
\* never the real-API path while the token is empty
C28_MockIffNoToken ==
    [][\A e \in EventIds :
          (variant = "part000" /\ Begins(e))
             => (USE_MOCK_API <=> apiToken = "")]_vars

-----------------------------------------------------------------------------
(* Claims about a simulation under a rule list with a fallback (SpecSim) *)

\* the results the rules of the installed list name
NamedResults == {businessRules[i].result : i \in 1..Len(businessRules)}

\* C29: if the rule list contains a fallback rule, executeRules returns only
\* results a rule names; in a simulation run with such a list whose rules do
\* not name NO_ACTION every record counts as acted upon, and coverage is
\* exactly 1 whenever there is a high-risk record, whichever action each
\* record received
C29_FallbackCoversAll ==
    (Simulated /\ FallbackRules # {}) =>
        /\ \A i \in 1..Len(outTable) : outTable[i].action \in NamedResults
        /\ "NO_ACTION" \notin NamedResults =>
              /\ \A i \in 1..Len(outTable) : outTable[i].action # "NO_ACTION"
              /\ kpi.kpiActions = Len(mockData)
              /\ CoveredRecords = HighRiskRecords
              /\ kpi.highRisk > 0 =>
                    /\ kpi.highRiskCovered = kpi.highRisk
                    /\ kpi.kpiCoverage = 100

C29_Witness ==
    /\ Simulated
    /\ FallbackRules # {}
    /\ "NO_ACTION" \notin NamedResults
    /\ \E i \in 1..Len(businessRules) : businessRules[i].type = "conditional"
    /\ Cardinality(HighRiskRecords) >= 2
    /\ \E i, j \in HighRiskRecords : outTable[i].action # outTable[j].action
    /\ \E i \in HighRiskRecords : actionCost(outTable[i].action) = 0
    /\ kpi.kpiCoverage = 100

-----------------------------------------------------------------------------
(* Claims about the rule list of a pending analysis (SpecTask3) *)

\* C30 as claimed: the business action of an analysis is computed with the
\* rule list that was installed when the analysis was started, also when
\* runSimulation installs a new rule list while the classifier call of the
\* analysis is pending
C30_RulesOfTheClick ==
    [][\A e \in EventIds :
          (/\ variant = "Task3_277"
           /\ ev[e].pc = "classifying"
           /\ ev'[e].pc = "logging")
              => ev'[e].action
                    = executeRules(
                          sentimentRecord(ev'[e].sentiment.label,
                                          ev'[e].sentiment.score),
                          ev[e].rulesAtStart).value
      ]_vars

=============================================================================
